---- MODULE Spec2Model ----
(***************************************************************************)
(* Item lifecycle and moderation engine of the lost-and-found backend:     *)
(* the relational store (users, items, reports, resolutions,               *)
(* notifications), the request handlers of app/routers, and the requests   *)
(* that are between two of their store statements.                         *)
(***************************************************************************)
EXTENDS Integers, FiniteSets, Sequences, Bags, TLC

VARIABLES
    users,          \* users table: id -> row
    items,          \* items table: id -> row (a deleted item has no entry)
    reports,        \* reports table: a bag of rows
    resolutions,    \* resolutions table: a bag of rows
    notifications,  \* notifications table: a bag of rows
    inflight,       \* requests between two store statements: a bag
    resp,           \* the response sent last
    hist,           \* history: items that reached the threshold / an admin hid,
                    \* and the time of the latest hide of an admin
    blobs,          \* object store: the keys of the stored images
    now             \* the clock, in days

vars == <<users, items, reports, resolutions, notifications, inflight, resp, hist,
          blobs, now>>

----------------------------------------------------------------------------
(* Bounds of the model. *)

\* Users of the report scenario: the owner and NumReporters others.
NumReporters == 6
\* Requests that may be between two store statements at the same time.
MaxInFlight == 2
\* Items of the read scenario.
NumReadItems == 2
\* Page numbers tried by the listing.
MaxPage == 2
\* Users of the claim scenario besides the owner.
NumClaimants == 2
\* Keys upload_to_s3 can hand out in the item scenario.
MaxKeys == 2
\* Warnings a user can collect.
MaxWarnings == 1
\* The last day of the clock.
MaxDay == 3

\* The claims made on an item in the decision scenario.
MaxClaims == 3

\* The warn requests of the warn scenario that reach their commit.
MaxWarnRequests == 3

----------------------------------------------------------------------------
(* Values. *)

\* An absent string value (NULL, a missing claim) and an absent row id.
None == "none"
NoId == 0
\* An absent datetime (ban_until IS NULL); the clock starts after it.
NoTime == 0
HostelType == {"boys", "girls"}
RoleType == {"user", "admin"}
VisibilityType == {"public", "boys", "girls"}
ItemType == {"lost", "found"}
HiddenReasonType == {"auto_report_threshold", "admin_moderation"}
ActiveStatus == {"pending", "approved"}

\* The pending-report count at which report_item hides the item.
AUTO_HIDE_THRESHOLD == 5

\* The length of a temp_ban when the request gives none.
DEFAULT_BAN_DAYS == 7

OwnerId == 1
AdminId == 2

\* The external identity (Google "sub") of the user with primary key u.
PublicId(u) == 100 + u

NoToken == [sub |-> NoId, hostel |-> None, role |-> None]

\* The claims google_auth puts into the token of user row u.
IssueToken(u) ==
    [sub |-> users[u].public_id, hostel |-> users[u].hostel, role |-> users[u].role]

\* A response body that carries no item.
NoBody == [items |-> {}]

\* A response: the handler, the caller's token (kept for the read handlers
\* only), the item asked for, the status code and the body.
NoResp == [op |-> None, tok |-> NoToken, item_id |-> NoId, code |-> 0, body |-> NoBody]

Respond(op, tok, id, code, body) ==
    [op |-> op, tok |-> tok, item_id |-> id, code |-> code, body |-> body]

----------------------------------------------------------------------------
(* Store helpers. *)

\* The ban check of get_db_user looking at ban_until as well.
GetDbUser_BanExpires(sub) ==
    LET found == {u \in DOMAIN users : users[u].public_id = sub}
    IN  IF found = {} THEN NoId
        ELSE LET u == CHOOSE x \in found : TRUE
             IN  IF users[u].is_banned
                    /\ (users[u].ban_until = NoTime \/ users[u].ban_until > now)
                 THEN NoId ELSE u

\* select(User).where(User.public_id == sub).first(), then the ban check.
GetDbUser(sub) ==
    LET found == {u \in DOMAIN users : users[u].public_id = sub}
    IN  IF found = {} THEN NoId
        ELSE LET u == CHOOSE x \in found : TRUE
             IN  IF users[u].is_banned THEN NoId ELSE u

\* require_admin trusting the user lookup alone.
RequireAdmin_NoRoleCheck(sub) == GetDbUser(sub)

\* get_db_user, then the persisted role must be admin.
RequireAdmin(sub) ==
    LET u == GetDbUser(sub)
    IN  IF u = NoId THEN NoId
        ELSE IF users[u].role # "admin" THEN NoId ELSE u

\* The lookup of the item without the is_hidden filter.
SelectVisibleItem_AnyItem(id) == IF id \in DOMAIN items THEN id ELSE NoId

\* select(Item).where(Item.id == id).where(Item.is_hidden == False).first()
SelectVisibleItem(id) ==
    IF id \in DOMAIN items /\ ~items[id].is_hidden THEN id ELSE NoId

ReportRow(u, i) ==
    [user_id |-> u, item_id |-> i, status |-> "pending", reviewed_by |-> NoId,
     reviewed_at |-> NoTime]

ReportsOf(u, i) ==
    {r \in BagToSet(reports) : r.user_id = u /\ r.item_id = i}

\* The store without uq_user_item_report: only the foreign key is checked.
ReportInsertAllowed_NoUnique(u, i) == i \in DOMAIN items

\* uq_user_item_report and the foreign key of item_id: whether the store
\* accepts a new row for (u, i).
ReportInsertAllowed(u, i) ==
    /\ ReportsOf(u, i) = {}
    /\ i \in DOMAIN items

RECURSIVE SumCopies(_, _)
SumCopies(bag, rows) ==
    IF rows = {} THEN 0
    ELSE LET r == CHOOSE x \in rows : TRUE
         IN  CopiesIn(r, bag) + SumCopies(bag, rows \ {r})

\* select(func.count(Report.id)).where(item_id == i).where(status == "pending")
PendingCountIn(rows, i) ==
    SumCopies(rows,
              {r \in BagToSet(rows) : r.item_id = i /\ r.status = "pending"})

PendingCount(i) == PendingCountIn(reports, i)

\* The threshold test off by one.
ReportThresholdReached_Strict(n) == n > AUTO_HIDE_THRESHOLD

ReportThresholdReached(n) == n >= AUTO_HIDE_THRESHOLD

\* The Notification row of lines 303-309.
HideNotice(owner, i) ==
    [user_id |-> owner, type |-> "system_notice", item_id |-> i]

HideNoticeCountIn(rows, i) ==
    SumCopies(rows,
              {n \in BagToSet(rows) :
                  n.type = "system_notice" /\ n.item_id = i})

HideNoticeCount(i) == HideNoticeCountIn(notifications, i)

Add(bag, row) == bag (+) SetToBag({row})
Remove(bag, row) == bag (-) SetToBag({row})

\* The requests of handler `op` that are received and not yet answered.
Requests(op) == {r \in BagToSet(inflight) : r.op = op}

ReportRequests == Requests("report_item")

----------------------------------------------------------------------------
(* report_item, one action per store statement. *)

\* Lines 257-273: the item lookup, the user lookup and the self-report check.
ReportLoad(u, id) ==
    LET tok == IssueToken(u)
        item == SelectVisibleItem(id)
        user == GetDbUser(tok.sub)
    IN  /\ BagCardinality(inflight) < MaxInFlight
        /\ IF item = NoId
           THEN /\ resp' = Respond("report_item", NoToken, id, 404, NoBody)
                /\ UNCHANGED inflight
           ELSE IF user = NoId
           THEN /\ resp' = Respond("report_item", NoToken, id, 404, NoBody)
                /\ UNCHANGED inflight
           ELSE IF items[item].user_id = user
           THEN /\ resp' = Respond("report_item", NoToken, id, 400, NoBody)
                /\ UNCHANGED inflight
           ELSE /\ inflight' = Add(inflight,
                      [op |-> "report_item", user_id |-> user,
                       item_id |-> item, pc |-> "add"])
                /\ UNCHANGED resp
        /\ UNCHANGED <<users, items, reports, resolutions, notifications, hist, blobs, now>>

\* Lines 275-288: the insert and its commit; IntegrityError becomes 409.
ReportCommit(r) ==
    /\ r \in ReportRequests /\ r.pc = "add"
    /\ IF ReportInsertAllowed(r.user_id, r.item_id)
       THEN /\ reports' = Add(reports, ReportRow(r.user_id, r.item_id))
            /\ inflight' = Add(Remove(inflight, r), [r EXCEPT !.pc = "count"])
            /\ hist' = [hist EXCEPT !.reached =
                   IF PendingCount(r.item_id) + 1 >= AUTO_HIDE_THRESHOLD
                   THEN @ \cup {r.item_id} ELSE @]
            /\ UNCHANGED resp
       ELSE /\ inflight' = Remove(inflight, r)
            /\ resp' = Respond("report_item", NoToken, r.item_id, 409, NoBody)
            /\ UNCHANGED <<reports, hist>>
    /\ UNCHANGED <<users, items, resolutions, notifications, blobs, now>>

\* Lines 292-298: the pending count and the threshold test; below the
\* threshold the handler returns.
ReportCount(r) ==
    /\ r \in ReportRequests /\ r.pc = "count"
    /\ IF ReportThresholdReached(PendingCount(r.item_id))
       THEN /\ inflight' = Add(Remove(inflight, r), [r EXCEPT !.pc = "hide"])
            /\ UNCHANGED resp
       ELSE /\ inflight' = Remove(inflight, r)
            /\ resp' = Respond("report_item", NoToken, r.item_id, 200, NoBody)
    /\ UNCHANGED <<users, items, reports, resolutions, notifications, hist, blobs, now>>

\* Lines 299-316: the hide, the owner's notification and their commit.
ReportHide(r) ==
    /\ r \in ReportRequests /\ r.pc = "hide"
    /\ r.item_id \in DOMAIN items
    /\ items' = [items EXCEPT ![r.item_id].is_hidden = TRUE,
                              ![r.item_id].hidden_reason = "auto_report_threshold"]
    /\ notifications' = Add(notifications, HideNotice(items[r.item_id].user_id, r.item_id))
    /\ inflight' = Remove(inflight, r)
    /\ resp' = Respond("report_item", NoToken, r.item_id, 200, NoBody)
    /\ UNCHANGED <<users, reports, resolutions, hist, blobs, now>>

\* A store failure after the first commit (line 285): the count or the
\* second commit raises, the request ends with a server error and the
\* session's uncommitted changes are dropped.
ReportAbort(r) ==
    /\ r \in ReportRequests /\ r.pc \in {"count", "hide"}
    /\ inflight' = Remove(inflight, r)
    /\ resp' = Respond("report_item", NoToken, r.item_id, 500, NoBody)
    /\ UNCHANGED <<users, items, reports, resolutions, notifications, hist, blobs, now>>

----------------------------------------------------------------------------
(* moderate_item. admin.py names its dependency get_require_admin,        *)
(* auth_helper.py defines require_admin; line 467 resolves the admin row   *)
(* once more through get_db_user.                                          *)

\* The status code of the admin dependency: get_db_user, then the role.
RequireAdminCode(sub) ==
    IF GetDbUser(sub) = NoId THEN 404
    ELSE IF RequireAdmin(sub) = NoId THEN 403
    ELSE 200

\* ondelete="CASCADE" of Report.item_id and Resolution.found_item_id.
CascadeReports(id) ==
    [r \in {x \in DOMAIN reports : x.item_id # id} |-> reports[r]]

CascadeResolutions(id) ==
    [r \in {x \in DOMAIN resolutions : x.found_item_id # id} |-> resolutions[r]]

\* Notification.item_id is a foreign key without ondelete: the store
\* refuses to delete an item that a notification references.
ItemReferenced(id) == \E n \in BagToSet(notifications) : n.item_id = id

\* The update of restore setting the status alone.
ReviewReports_Unstamped(id, admin) ==
    LET Reviewed(r) == IF r.item_id = id
                       THEN [r EXCEPT !.status = "reviewed"]
                       ELSE r
        rows == BagToSet(reports)
    IN  [x \in {Reviewed(r) : r \in rows} |->
            SumCopies(reports, {r \in rows : Reviewed(r) = x})]

\* The update of restore reopening the reports that were reviewed.
ReviewReports_Reopens(id, admin) ==
    LET Reviewed(r) == IF r.item_id # id THEN r
                       ELSE IF r.status = "pending"
                       THEN [r EXCEPT !.status = "reviewed",
                                      !.reviewed_by = admin,
                                      !.reviewed_at = now]
                       ELSE [r EXCEPT !.status = "pending"]
        rows == BagToSet(reports)
    IN  [x \in {Reviewed(r) : r \in rows} |->
            SumCopies(reports, {r \in rows : Reviewed(r) = x})]

\* update(Report).where(Report.item_id == id).values(status="reviewed", ...)
ReviewReports(id, admin) ==
    LET Reviewed(r) == IF r.item_id = id
                       THEN [r EXCEPT !.status = "reviewed",
                                      !.reviewed_by = admin,
                                      !.reviewed_at = now]
                       ELSE r
        rows == BagToSet(reports)
    IN  [x \in {Reviewed(r) : r \in rows} |->
            SumCopies(reports, {r \in rows : Reviewed(r) = x})]

ModerateItemAction == {"hide", "restore", "delete"}

\* session.rollback() dropping nothing of the session's changes.
Rollback_KeepsChanges(stored, changed) == changed

\* session.rollback() after a commit that raised: the table is what was
\* stored before the handler's changes.
Rollback(stored, changed) == stored

\* Whether the commit of the changed session succeeds, as far as the
\* constraints of the store decide it.
ItemCommitAllowed(id, action) == ~(action = "delete" /\ ItemReferenced(id))

\* The tables as the branches of lines 473-475, 488-501 and 514-516 leave
\* them for the commit.
ModeratedItems(id, action) ==
    IF action = "hide"
    THEN [items EXCEPT ![id].is_hidden = TRUE,
                       ![id].hidden_reason = "admin_moderation"]
    ELSE IF action = "restore"
    THEN [items EXCEPT ![id].is_hidden = FALSE,
                       ![id].hidden_reason = None]
    ELSE [i \in DOMAIN items \ {id} |-> items[i]]

ModeratedReports(id, action, admin) ==
    IF action = "restore" THEN ReviewReports(id, admin)
    ELSE IF action = "delete" THEN CascadeReports(id)
    ELSE reports

ModeratedResolutions(id, action) ==
    IF action = "delete" THEN CascadeResolutions(id) ELSE resolutions

\* The status code of moderate_item whose commit succeeds unless the store
\* refuses it.
ModerateItemCode(tok, id, action) ==
    LET gate == RequireAdminCode(tok.sub)
    IN  IF gate # 200 THEN gate
        ELSE IF id \notin DOMAIN items THEN 404
        ELSE IF action \notin ModerateItemAction THEN 400
        ELSE IF ~ItemCommitAllowed(id, action) THEN 500
        ELSE 200

ModerateItem(tok, id, action) ==
    LET code == ModerateItemCode(tok, id, action)
        admin == RequireAdmin(tok.sub)
        done == code = 200
    IN  /\ resp' = Respond("moderate_item", tok, id, code,
                           [items |-> {}, action |-> action])
        /\ items' = IF done THEN ModeratedItems(id, action) ELSE items
        /\ reports' = IF done THEN ModeratedReports(id, action, admin)
                      ELSE reports
        /\ resolutions' = IF done THEN ModeratedResolutions(id, action)
                          ELSE resolutions
        /\ hist' = IF done /\ action = "hide"
                   THEN [hist EXCEPT !.admin_hid = @ \cup {id},
                                     !.hid_at = now]
                   ELSE hist
        /\ UNCHANGED <<users, notifications, inflight, blobs, now>>

\* moderate_item whose commit (lines 478, 504, 517) raises for a reason
\* outside the model's store, a lost connection for instance: the except
\* branch rolls the session back and answers 500.
ModerateItemFails(tok, id, action) ==
    LET admin == RequireAdmin(tok.sub)
    IN  /\ RequireAdminCode(tok.sub) = 200
        /\ id \in DOMAIN items
        /\ action \in ModerateItemAction
        /\ resp' = Respond("moderate_item", tok, id, 500,
                           [items |-> {}, action |-> action])
        /\ items' = Rollback(items, ModeratedItems(id, action))
        /\ reports' = Rollback(reports, ModeratedReports(id, action, admin))
        /\ resolutions' = Rollback(resolutions,
                                   ModeratedResolutions(id, action))
        /\ UNCHANGED <<users, notifications, inflight, hist, blobs, now>>

\* moderate_item hide and restore next to other requests, up to line 471:
\* the admin dependency and session.get, which reads the item's row.
ModerateItemLoad(tok, id, action) ==
    LET gate == RequireAdminCode(tok.sub)
        code == IF gate # 200 THEN gate
                ELSE IF id \notin DOMAIN items THEN 404
                ELSE 200
    IN  /\ action \in {"hide", "restore"}
        /\ BagCardinality(inflight) < MaxInFlight
        /\ IF code # 200
           THEN /\ resp' = Respond("moderate_item", tok, id, code,
                                   [items |-> {}, action |-> action])
                /\ UNCHANGED inflight
           ELSE /\ inflight' = Add(inflight,
                      [op |-> "moderate_item", tok |-> tok, item_id |-> id,
                       action |-> action,
                       is_hidden |-> items[id].is_hidden,
                       hidden_reason |-> items[id].hidden_reason,
                       pc |-> "commit"])
                /\ UNCHANGED resp
        /\ UNCHANGED <<users, items, reports, resolutions, notifications,
                       hist, blobs, now>>

\* The flush of the session: the UPDATE sets the columns whose assigned
\* value differs from the value the session loaded, and no other column.
WriteChanged(row, loaded, assigned) ==
    [row EXCEPT !.is_hidden = IF assigned.is_hidden # loaded.is_hidden
                              THEN assigned.is_hidden ELSE @,
                !.hidden_reason =
                    IF assigned.hidden_reason # loaded.hidden_reason
                    THEN assigned.hidden_reason ELSE @]

\* Lines 473-478 and 488-504: the assignments, for restore the update of
\* the reports, and the commit.
ModerateItemCommit(r) ==
    LET id == r.item_id
        assigned == ModeratedItems(id, r.action)[id]
    IN  /\ r \in Requests("moderate_item") /\ r.pc = "commit"
        /\ id \in DOMAIN items
        /\ items' = [items EXCEPT ![id] = WriteChanged(@, r, assigned)]
        /\ reports' = ModeratedReports(id, r.action, RequireAdmin(r.tok.sub))
        /\ hist' = IF r.action = "hide"
                   THEN [hist EXCEPT !.admin_hid = @ \cup {id},
                                     !.hid_at = now]
                   ELSE hist
        /\ inflight' = Remove(inflight, r)
        /\ resp' = Respond("moderate_item", r.tok, id, 200,
                           [items |-> {}, action |-> r.action])
        /\ UNCHANGED <<users, resolutions, notifications, blobs, now>>

\* The hide of an admin on an item of the store.
ModerateItemHide(u, id) ==
    /\ RequireAdmin(IssueToken(u).sub) # NoId
    /\ id \in DOMAIN items
    /\ ModerateItem(IssueToken(u), id, "hide")

----------------------------------------------------------------------------
(* The report scenario: one item of the owner, nobody has reported yet. *)

ReportUsers == 1 .. (NumReporters + 1)

NewUser(u, hostel, role) ==
    [public_id |-> PublicId(u), phone |-> None, hostel |-> hostel,
     role |-> role, warning_count |-> 0, is_banned |-> FALSE,
     ban_reason |-> None, ban_until |-> NoTime]

\* A row as add_item stores it; created_at is the creation order and the
\* image key is the one upload_to_s3 returned for it.
NewItem(id, owner, type, visibility) ==
    [user_id |-> owner, type |-> type, visibility |-> visibility,
     image |-> id, title |-> "title", location |-> "location",
     description |-> "description", category |-> "others", date |-> "date",
     is_hidden |-> FALSE, hidden_reason |-> None, created_at |-> id]

InitReport ==
    /\ users = [u \in ReportUsers |->
                   NewUser(u, None, IF u = AdminId THEN "admin" ELSE "user")]
    /\ items = [i \in {1} |-> NewItem(i, OwnerId, "found", "public")]
    /\ reports = EmptyBag
    /\ resolutions = EmptyBag
    /\ notifications = EmptyBag
    /\ inflight = EmptyBag
    /\ resp = NoResp
    /\ hist = [reached |-> {}, admin_hid |-> {}, hid_at |-> NoTime]
    /\ blobs = {items[i].image : i \in DOMAIN items}
    /\ now = 1

NextReport ==
    \/ \E u \in DOMAIN users, id \in DOMAIN items : ReportLoad(u, id)
    \/ \E r \in ReportRequests : ReportCommit(r)
    \/ \E r \in ReportRequests : ReportCount(r)
    \/ \E r \in ReportRequests : ReportHide(r)
    \/ \E r \in ReportRequests : ReportAbort(r)
    \/ \E u \in DOMAIN users, id \in DOMAIN items : ModerateItemHide(u, id)

SpecReport == InitReport /\ [][NextReport]_vars

----------------------------------------------------------------------------
(* The read paths: get_item, get_all_items, get_profile. *)

\* The default page size of get_all_items.
DEFAULT_LIMIT == 10

\* current_user.get("hostel") if current_user else None
TokenHostel(tok) == IF tok = NoToken THEN None ELSE tok.hostel

\* current_user.get("role") == "admin" if current_user else False
TokenIsAdmin(tok) == tok # NoToken /\ tok.role = "admin"

\* The hidden filter of get_item applied to admins instead of the others.
GetItemRow_AdminFiltered(store, tok, id) ==
    /\ id \in DOMAIN store
    /\ store[id].user_id \in DOMAIN users
    /\ (~TokenIsAdmin(tok) \/ ~store[id].is_hidden)

\* Lines 136-152: the item joined with its owner; only a non-admin gets
\* the is_hidden filter.
GetItemRow(store, tok, id) ==
    /\ id \in DOMAIN store
    /\ store[id].user_id \in DOMAIN users
    /\ (TokenIsAdmin(tok) \/ ~store[id].is_hidden)

\* The scope check of get_item comparing with "public" only.
GetItemInScope_PublicOnly(item, tok) == item.visibility = "public"

\* Lines 157-159: the item's scope against the token's hostel.
GetItemInScope(item, tok) ==
    ~(item.visibility # "public" /\ item.visibility # TokenHostel(tok))

\* The status code of get_item on the items table `store`.
GetItemCode(store, tok, id) ==
    IF ~GetItemRow(store, tok, id) THEN 404
    ELSE IF ~GetItemInScope(store[id], tok) THEN 403
    ELSE 200

\* Statuses the outer join of lines 139-143 can put in the first row.
ClaimStatusChoices(id) ==
    LET active == {r.status : r \in
                      {x \in BagToSet(resolutions) :
                          x.found_item_id = id /\ x.status \in ActiveStatus}}
    IN  IF active = {} THEN {"none"} ELSE active

GetItem(r) ==
    LET code == GetItemCode(items, r.tok, r.item_id)
    IN  /\ r \in Requests("get_item")
        /\ \E cs \in ClaimStatusChoices(r.item_id) :
               resp' = Respond("get_item", r.tok, r.item_id, code,
                               IF code = 200
                               THEN [items |-> {r.item_id}, claim_status |-> cs]
                               ELSE NoBody)
        /\ inflight' = Remove(inflight, r)
        /\ UNCHANGED <<users, items, reports, resolutions, notifications,
                       hist, blobs, now>>

\* Lines 90-100: the filter of the listing.
ListFilter(store, tok) ==
    {i \in DOMAIN store :
        /\ ~store[i].is_hidden
        /\ IF TokenHostel(tok) # None
           THEN store[i].visibility = TokenHostel(tok)
                \/ store[i].visibility = "public"
           ELSE store[i].visibility = "public"}

\* order_by(Item.created_at.desc())
RECURSIVE NewestFirst(_, _)
NewestFirst(store, ids) ==
    IF ids = {} THEN << >>
    ELSE LET m == CHOOSE x \in ids :
                      \A y \in ids : store[y].created_at <= store[x].created_at
         IN  <<m>> \o NewestFirst(store, ids \ {m})

\* offset(offset).limit(limit)
Page(seq, offset, limit) ==
    SubSeq(seq, offset + 1,
           IF offset + limit < Len(seq) THEN offset + limit ELSE Len(seq))

GetAllItems(r) ==
    LET ordered == NewestFirst(items, ListFilter(items, r.tok))
        total == Len(ordered)
        offset == (r.page - 1) * r.limit
        rows == Page(ordered, offset, r.limit)
    IN  /\ r \in Requests("get_all_items")
        /\ resp' = Respond("get_all_items", r.tok, NoId, 200,
                      [items |-> {rows[k] : k \in DOMAIN rows},
                       order |-> rows, total |-> total, page |-> r.page,
                       limit |-> r.limit,
                       has_more |-> (offset + Len(rows) < total)])
        /\ inflight' = Remove(inflight, r)
        /\ UNCHANGED <<users, items, reports, resolutions, notifications,
                       hist, blobs, now>>

\* select(User).where(User.public_id == pid).first(), without a ban check.
UserByPublicId(pid) ==
    LET found == {u \in DOMAIN users : users[u].public_id = pid}
    IN  IF found = {} THEN NoId ELSE CHOOSE x \in found : TRUE

\* Lines 100-109: the hostel of the viewer's persisted row.
ViewerHostel(tok) ==
    IF tok = NoToken THEN None
    ELSE LET viewer == UserByPublicId(tok.sub)
         IN  IF viewer = NoId THEN None ELSE users[viewer].hostel

\* Lines 111-119: the profile's items, filtered by scope only.
ProfileFilter(store, owner, hostel) ==
    {i \in DOMAIN store :
        /\ store[i].user_id = owner
        /\ IF hostel # None
           THEN store[i].visibility = hostel \/ store[i].visibility = "public"
           ELSE store[i].visibility = "public"}

GetProfile(r) ==
    LET profile_user == UserByPublicId(r.public_id)
        shown == ProfileFilter(items, profile_user, ViewerHostel(r.tok))
    IN  /\ r \in Requests("get_profile")
        /\ IF profile_user = NoId
           THEN resp' = Respond("get_profile", r.tok, NoId, 404, NoBody)
           ELSE resp' = Respond("get_profile", r.tok, NoId, 200,
                     [items |-> shown,
                      lost_items |-> {i \in shown : items[i].type = "lost"},
                      found_items |-> {i \in shown : items[i].type = "found"}])
        /\ inflight' = Remove(inflight, r)
        /\ UNCHANGED <<users, items, reports, resolutions, notifications,
                       hist, blobs, now>>

----------------------------------------------------------------------------
(* The read scenario: the owner's items in every scope and hidden state,   *)
(* and one read request of an anonymous caller, the owner or an admin.     *)

ReadUsers == {OwnerId, AdminId}
ReadItems == 1 .. NumReadItems

HiddenStates ==
    {[is_hidden |-> FALSE, hidden_reason |-> None]} \cup
    {[is_hidden |-> TRUE, hidden_reason |-> h] : h \in HiddenReasonType}

\* Tokens a caller can hold: none, or one issued for a user by google_auth
\* (the hostel of that time) or by refresh_token (no hostel claim).
TokensOf(u) ==
    {[IssueToken(u) EXCEPT !.hostel = h] :
        h \in {None} \cup (IF users[u].hostel = None THEN {} ELSE HostelType)}

ReadTokens == {NoToken} \cup UNION {TokensOf(u) : u \in DOMAIN users}

\* The read requests: an item id (the last one is of no item), a page and
\* a page size, the public id of a profile (the first one is of no user).
ReadRequests ==
    {[op |-> "get_item", tok |-> t, item_id |-> id] :
        t \in ReadTokens, id \in 1 .. (NumReadItems + 1)}
    \cup {[op |-> "get_all_items", tok |-> t, page |-> p, limit |-> l] :
        t \in ReadTokens, p \in 1 .. MaxPage, l \in {1, DEFAULT_LIMIT}}
    \cup {[op |-> "get_profile", tok |-> t, public_id |-> PublicId(u)] :
        t \in ReadTokens, u \in 0 .. Cardinality(DOMAIN users)}

InitRead ==
    /\ users \in {[u \in ReadUsers |->
                     NewUser(u, f[u], IF u = AdminId THEN "admin" ELSE "user")] :
                  f \in [ReadUsers -> HostelType \cup {None}]}
    /\ items \in {[i \in ReadItems |->
                     [NewItem(i, OwnerId, IF i % 2 = 1 THEN "found" ELSE "lost", v[i])
                         EXCEPT !.is_hidden = h[i].is_hidden,
                                !.hidden_reason = h[i].hidden_reason]] :
                  v \in [ReadItems -> VisibilityType],
                  h \in [ReadItems -> HiddenStates]}
    /\ reports = EmptyBag
    /\ resolutions = EmptyBag
    /\ notifications = EmptyBag
    /\ inflight \in {SetToBag({r}) : r \in ReadRequests}
    /\ resp = NoResp
    /\ hist = [reached |-> {}, admin_hid |-> {}, hid_at |-> NoTime]
    /\ blobs = {items[i].image : i \in DOMAIN items}
    /\ now = 1

NextRead ==
    \/ \E r \in Requests("get_item") : GetItem(r)
    \/ \E r \in Requests("get_all_items") : GetAllItems(r)
    \/ \E r \in Requests("get_profile") : GetProfile(r)

SpecRead == InitRead /\ [][NextRead]_vars

----------------------------------------------------------------------------
(* Claims on found items. The Resolution table is the one of              *)
(* app/models/resolution.py; the handler that creates a claim follows      *)
(* section 4.5 of the specification.                                       *)

ResolutionRow(claimant, id) ==
    [claimant_id |-> claimant, found_item_id |-> id, status |-> "pending"]

\* What the resolutions table checks on insert: the foreign key of
\* found_item_id; the table declares no uniqueness or exclusion constraint.
ResolutionInsertAllowed(claimant, id) == id \in DOMAIN items

ActiveResolutionCount(id) ==
    SumCopies(resolutions,
              {x \in BagToSet(resolutions) :
                  x.found_item_id = id /\ x.status \in ActiveStatus})

ClaimNotice(owner, id) ==
    [user_id |-> owner, type |-> "claim_created", item_id |-> id]

\* The visibility filter for a non-admin with affiliation aff.
VisibleTo(item, aff) ==
    ~item.is_hidden /\ (item.visibility = "public" \/ item.visibility = aff)

\* The checks of "create claim": claimant, item, type, owner, active claim.
ClaimCheck(u, id) ==
    LET tok == IssueToken(u)
        user == GetDbUser(tok.sub)
        Reject(code) ==
            /\ resp' = Respond("create_claim", NoToken, id, code, NoBody)
            /\ UNCHANGED inflight
    IN  /\ BagCardinality(inflight) < MaxInFlight
        /\ IF user = NoId THEN Reject(403)
           ELSE IF id \notin DOMAIN items THEN Reject(404)
           ELSE IF ~VisibleTo(items[id], users[user].hostel) THEN Reject(404)
           ELSE IF items[id].type # "found" THEN Reject(400)
           ELSE IF items[id].user_id = user THEN Reject(403)
           ELSE IF ActiveResolutionCount(id) > 0 THEN Reject(409)
           ELSE /\ inflight' = Add(inflight,
                      [op |-> "create_claim", user_id |-> user,
                       item_id |-> id, pc |-> "insert"])
                /\ UNCHANGED resp
        /\ UNCHANGED <<users, items, reports, resolutions, notifications, hist, blobs, now>>

\* The insert of the Resolution and of the owner's claim_created notice;
\* a constraint violation of the store becomes 409.
ClaimInsert(r) ==
    /\ r \in Requests("create_claim") /\ r.pc = "insert"
    /\ IF ResolutionInsertAllowed(r.user_id, r.item_id)
       THEN /\ resolutions' = Add(resolutions, ResolutionRow(r.user_id, r.item_id))
            /\ notifications' = Add(notifications,
                   ClaimNotice(items[r.item_id].user_id, r.item_id))
            /\ resp' = Respond("create_claim", NoToken, r.item_id, 200, NoBody)
       ELSE /\ resp' = Respond("create_claim", NoToken, r.item_id, 409, NoBody)
            /\ UNCHANGED <<resolutions, notifications>>
    /\ inflight' = Remove(inflight, r)
    /\ UNCHANGED <<users, items, reports, hist, blobs, now>>

\* The claim scenario: the owner's two items, the first one found, and the
\* claimants; nothing is claimed yet.
ClaimUsers == 1 .. (NumClaimants + 1)

InitClaim ==
    /\ users \in {[u \in ClaimUsers |-> NewUser(u, f[u], "user")] :
                  f \in [ClaimUsers -> {None, "boys"}]}
    /\ items \in {[i \in {1, 2} |->
                     NewItem(i, OwnerId, IF i = 1 THEN "found" ELSE t, v[i])] :
                  t \in ItemType, v \in [{1, 2} -> {"public", "boys"}]}
    /\ reports = EmptyBag
    /\ resolutions = EmptyBag
    /\ notifications = EmptyBag
    /\ inflight = EmptyBag
    /\ resp = NoResp
    /\ hist = [reached |-> {}, admin_hid |-> {}, hid_at |-> NoTime]
    /\ blobs = {items[i].image : i \in DOMAIN items}
    /\ now = 1

NextClaim ==
    \/ \E u \in DOMAIN users, id \in DOMAIN items : ClaimCheck(u, id)
    \/ \E r \in Requests("create_claim") : ClaimInsert(r)

SpecClaim == InitClaim /\ [][NextClaim]_vars

\* Approve and reject of section 4.5: the item's owner decides a claim
\* that is pending; the decision and its notification are one
\* transaction, and the row is locked while it is decided.
ClaimDecisions == {"approved", "rejected"}

\* Approve and reject deciding a claim whatever its status.
DecideAllowed_AnyStatus(x) == TRUE

DecideAllowed(x) == x.status = "pending"

DecisionNotice(x) ==
    [user_id |-> x.claimant_id, type |-> "claim_" \o x.status,
     item_id |-> x.found_item_id]

DecideClaimCode(u, x) ==
    LET user == GetDbUser(IssueToken(u).sub)
    IN  IF user = NoId THEN 403
        ELSE IF x.found_item_id \notin DOMAIN items THEN 404
        ELSE IF items[x.found_item_id].user_id # user THEN 403
        ELSE IF ~DecideAllowed(x) THEN 409
        ELSE 200

DecideClaim(u, x, decision) ==
    LET code == DecideClaimCode(u, x)
        decided == [x EXCEPT !.status = decision]
    IN  /\ x \in BagToSet(resolutions)
        /\ resp' = Respond("decide_claim", IssueToken(u), x.found_item_id,
                           code, [items |-> {}, action |-> decision])
        /\ resolutions' = IF code = 200
                          THEN Add(Remove(resolutions, x), decided)
                          ELSE resolutions
        /\ notifications' = IF code = 200
                            THEN Add(notifications, DecisionNotice(decided))
                            ELSE notifications
        /\ UNCHANGED <<users, items, reports, inflight, hist, blobs, now>>

\* A claim of user u on item id while fewer than MaxClaims claims exist.
ClaimCheckBounded(u, id) ==
    /\ BagCardinality(resolutions) + BagCardinality(inflight) < MaxClaims
    /\ ClaimCheck(u, id)

\* The decision scenario: the owner's found item, two claimants who claim
\* it again and again, and the owner and a claimant trying to decide.
DecideUsers == {OwnerId, AdminId, AdminId + 1}

InitDecide ==
    /\ users = [u \in DecideUsers |-> NewUser(u, None, "user")]
    /\ items = [i \in {1} |-> NewItem(i, OwnerId, "found", "public")]
    /\ reports = EmptyBag
    /\ resolutions = EmptyBag
    /\ notifications = EmptyBag
    /\ inflight = EmptyBag
    /\ resp = NoResp
    /\ hist = [reached |-> {}, admin_hid |-> {}, hid_at |-> NoTime]
    /\ blobs = {items[i].image : i \in DOMAIN items}
    /\ now = 1

NextDecide ==
    \/ \E u \in DecideUsers \ {OwnerId} : ClaimCheckBounded(u, 1)
    \/ \E r \in Requests("create_claim") : ClaimInsert(r)
    \/ \E u \in {OwnerId, AdminId}, x \in BagToSet(resolutions),
          decision \in ClaimDecisions : DecideClaim(u, x, decision)

SpecDecide == InitDecide /\ [][NextDecide]_vars

\* A get_item request arrives.
GetItemArrives(tok, id) ==
    /\ BagCardinality(inflight) < MaxInFlight
    /\ inflight' = Add(inflight, [op |-> "get_item", tok |-> tok,
                                  item_id |-> id])
    /\ UNCHANGED <<users, items, reports, resolutions, notifications, resp,
                   hist, blobs, now>>

\* The claim status scenario: the decision scenario with a claimant
\* reading the item.
InitStatus == InitDecide

NextStatus ==
    \/ NextDecide
    \/ GetItemArrives(IssueToken(AdminId), 1)
    \/ \E r \in Requests("get_item") : GetItem(r)

SpecStatus == InitStatus /\ [][NextStatus]_vars

----------------------------------------------------------------------------
(* The item store: add_item, update_item, delete_item, and moderate_item.  *)

\* upload_to_s3 returns a key that was never used.
RECURSIVE MaxOf(_)
MaxOf(S) ==
    IF S = {} THEN 0
    ELSE LET x == CHOOSE y \in S : TRUE
             m == MaxOf(S \ {x})
         IN  IF x > m THEN x ELSE m

NextKey == 1 + MaxOf(blobs \cup DOMAIN items)

\* Lines 48-76 of add_item: the size check, the upload, then the user
\* lookup and the insert. The upload is not undone when the lookup fails.
AddItem(u, type, visibility, too_big) ==
    LET tok == IssueToken(u)
        key == NextKey
        user == GetDbUser(tok.sub)
    IN  /\ key <= MaxKeys
        /\ IF too_big
           THEN /\ resp' = Respond("add_item", tok, NoId, 400, NoBody)
                /\ UNCHANGED <<items, blobs>>
           ELSE /\ blobs' = blobs \cup {key}
                /\ IF user = NoId
                   THEN /\ resp' = Respond("add_item", tok, NoId, 404, NoBody)
                        /\ UNCHANGED items
                   ELSE /\ items' = [i \in DOMAIN items \cup {key} |->
                                       IF i = key
                                       THEN NewItem(key, user, type, visibility)
                                       ELSE items[i]]
                        /\ resp' = Respond("add_item", tok, key, 200, NoBody)
        /\ UNCHANGED <<users, reports, resolutions, notifications, inflight,
                       hist, now>>

\* The outer join of update_item sees pending resolutions only.
HasActiveResolution_PendingOnly(id) ==
    \E x \in BagToSet(resolutions) : x.found_item_id = id /\ x.status = "pending"

\* Lines 183-187, 196-198: the outer join yields a Resolution id exactly
\* when a pending or approved Resolution references the item.
HasActiveResolution(id) == ActiveResolutionCount(id) > 0

\* The fields of ItemUpdateSchema.
UpdateFields ==
    {"title", "location", "description", "category", "visibility", "date"}

\* updates.model_dump(exclude_unset=True): the dict of the fields that the
\* request supplies; a field supplied as null is in it with the value None.
NoUpdate == [f \in {} |-> None]

\* The loop of setattr writing every field of the schema, the fields that
\* the request does not supply as None.
ApplyUpdate_AllFields(item, updates) ==
    [f \in DOMAIN item |->
        IF f \in DOMAIN updates THEN updates[f]
        ELSE IF f \in UpdateFields THEN None
        ELSE item[f]]

\* Lines 212-213: setattr(item, field, value) for the supplied fields.
ApplyUpdate(item, updates) ==
    [f \in DOMAIN item |->
        IF f \in DOMAIN updates THEN updates[f] ELSE item[f]]

\* The columns of Item that the schema can set are NOT NULL: the commit of
\* line 215 raises when a supplied field is null.
UpdateCommitAllowed(updates) == \A f \in DOMAIN updates : updates[f] # None

\* The status code of update_item, in the order of lines 192-210.
UpdateItemCode(tok, id, updates) ==
    LET item == SelectVisibleItem(id)
        user == GetDbUser(tok.sub)
    IN  IF item = NoId THEN 404
        ELSE IF HasActiveResolution(item) THEN 400
        ELSE IF user = NoId THEN 404
        ELSE IF items[item].user_id # user THEN 403
        ELSE IF DOMAIN updates = {} THEN 400
        ELSE IF ~UpdateCommitAllowed(updates) THEN 500
        ELSE 200

UpdateItem(u, id, updates) ==
    LET tok == IssueToken(u)
        code == UpdateItemCode(tok, id, updates)
    IN  /\ items' = IF code = 200
                    THEN [items EXCEPT ![id] = ApplyUpdate(@, updates)]
                    ELSE items
        /\ resp' = Respond("update_item", tok, id, code, NoBody)
        /\ UNCHANGED <<users, reports, resolutions, notifications, inflight,
                       hist, blobs, now>>

\* Line 228 of delete_item with the column compared in the query.
HiddenIsFalse_Column(item) == ~item.is_hidden

\* Line 228 of delete_item: `Item.is_hidden is False` is Python's identity
\* test of the column object against False, so the query gets where(False).
HiddenIsFalse(item) == FALSE

\* Lines 225-229: select(Item).where(Item.id == id).where(...).first()
SelectDeletableItem(id) ==
    IF id \in DOMAIN items /\ HiddenIsFalse(items[id]) THEN id ELSE NoId

\* delete_item: the lookup, the ownership check, delete_s3_object, then the
\* delete of the row and its commit; the commit fails when a notification
\* references the item, and may fail for any other reason of the store.
DeleteItem(u, id) ==
    LET tok == IssueToken(u)
        item == SelectDeletableItem(id)
        user == GetDbUser(tok.sub)
        Answer(code) == resp' = Respond("delete_item", tok, id, code, NoBody)
    IN  IF item = NoId \/ user = NoId
        THEN /\ Answer(404)
             /\ UNCHANGED <<users, items, reports, resolutions, notifications,
                            inflight, hist, blobs, now>>
        ELSE IF items[item].user_id # user
        THEN /\ Answer(403)
             /\ UNCHANGED <<users, items, reports, resolutions, notifications,
                            inflight, hist, blobs, now>>
        ELSE /\ blobs' = blobs \ {items[item].image}
             /\ \E committed \in (IF ItemReferenced(item)
                                  THEN {FALSE} ELSE BOOLEAN) :
                   IF committed
                   THEN /\ items' = [i \in DOMAIN items \ {item} |-> items[i]]
                        /\ reports' = CascadeReports(item)
                        /\ resolutions' = CascadeResolutions(item)
                        /\ Answer(200)
                   ELSE /\ Answer(500)
                        /\ UNCHANGED <<items, reports, resolutions>>
             /\ UNCHANGED <<users, notifications, inflight, hist, now>>

\* The item scenario: the owner, an admin and a third user; the owner's
\* found item, hidden or not, claimed or not, reported by the third user,
\* with or without a notification about it. The owner may be banned, for
\* good or until a day to come.
ItemUsers == {OwnerId, AdminId, AdminId + 1}

BanStates ==
    {[is_banned |-> FALSE, ban_until |-> NoTime],
     [is_banned |-> TRUE, ban_until |-> NoTime],
     [is_banned |-> TRUE, ban_until |-> DEFAULT_BAN_DAYS + 1]}

ItemUpdates == {NoUpdate, [visibility |-> "boys"]}

InitItem ==
    /\ users \in {[u \in ItemUsers |->
                     [NewUser(u, "boys", IF u = AdminId THEN "admin" ELSE "user")
                         EXCEPT !.is_banned = b[u].is_banned,
                                !.ban_until = b[u].ban_until]] :
                  b \in {f \in [ItemUsers -> BanStates] :
                            \A u \in ItemUsers \ {OwnerId} : ~f[u].is_banned}}
    /\ items \in {[i \in {1} |->
                     [NewItem(i, OwnerId, "found", "public")
                         EXCEPT !.is_hidden = h.is_hidden,
                                !.hidden_reason = h.hidden_reason]] :
                  h \in HiddenStates}
    /\ reports = SetToBag({ReportRow(AdminId + 1, 1)})
    /\ resolutions \in {EmptyBag} \cup
           {SetToBag({[ResolutionRow(AdminId + 1, 1) EXCEPT !.status = st]}) :
               st \in {"pending", "approved", "rejected"}}
    /\ notifications \in {EmptyBag, SetToBag({ClaimNotice(OwnerId, 1)})}
    /\ inflight = EmptyBag
    /\ resp = NoResp
    /\ hist = [reached |-> {}, admin_hid |-> {}, hid_at |-> NoTime]
    /\ blobs = {items[i].image : i \in DOMAIN items}
    /\ now = 1

NextItem ==
    \/ \E u \in DOMAIN users, big \in BOOLEAN :
           AddItem(u, "lost", "girls", big)
    \/ \E u \in DOMAIN users, id \in 1 .. MaxKeys, upd \in ItemUpdates :
           UpdateItem(u, id, upd)
    \/ \E u \in DOMAIN users, id \in 1 .. MaxKeys : DeleteItem(u, id)
    \/ \E u \in DOMAIN users, id \in 1 .. MaxKeys :
           ModerateItem(IssueToken(u), id, "delete")

SpecItem == InitItem /\ [][NextItem]_vars

----------------------------------------------------------------------------
(* Login, token refresh, the profile's set_hostel and moderate_user. A     *)
(* token that reaches a handler has passed jwt.decode and, in              *)
(* refresh_token, the session age test; its claims are those of its issue. *)

\* The identity claims of a verified Google ID token.
GoogleIdentity(g) == [sub |-> g, hostel |-> None, role |-> None]

\* public_id is unique: whether the store accepts a new row for identity g.
UserInsertAllowed(g) == \A u \in DOMAIN users : users[u].public_id # g

\* The token body of a TokenResponse.
TokenBody(tok) == [items |-> {}, token |-> tok]

\* Lines 29-49 of google_auth, and lines 62-79 for a user that exists: the
\* verification of the ID token (g = NoId: it fails), the lookup, the ban.
GoogleLookup(g) ==
    LET db_user == UserByPublicId(g)
        Answer(code, body) ==
            /\ resp' = Respond("google_auth", GoogleIdentity(g), NoId, code, body)
            /\ UNCHANGED inflight
    IN  /\ BagCardinality(inflight) < MaxInFlight
        /\ IF g = NoId THEN Answer(401, NoBody)
           ELSE IF db_user # NoId /\ users[db_user].is_banned
           THEN Answer(403, NoBody)
           ELSE IF db_user # NoId
           THEN Answer(200, TokenBody(IssueToken(db_user)))
           ELSE /\ inflight' = Add(inflight,
                      [op |-> "google_auth", public_id |-> g, pc |-> "insert"])
                /\ UNCHANGED resp
        /\ UNCHANGED <<users, items, reports, resolutions, notifications,
                       hist, blobs, now>>

\* Lines 51-79: the insert of the new row and its commit, then the token.
\* The IntegrityError of a public_id that exists by now is not caught.
GoogleInsert(r) ==
    LET id == Cardinality(DOMAIN users) + 1
        row == [NewUser(id, None, "user") EXCEPT !.public_id = r.public_id]
    IN  /\ r \in Requests("google_auth") /\ r.pc = "insert"
        /\ inflight' = Remove(inflight, r)
        /\ IF UserInsertAllowed(r.public_id)
           THEN /\ users' = [u \in DOMAIN users \cup {id} |->
                                IF u = id THEN row ELSE users[u]]
                /\ resp' = Respond("google_auth", GoogleIdentity(r.public_id),
                                   NoId, 200,
                                   TokenBody([sub |-> row.public_id,
                                              hostel |-> row.hostel,
                                              role |-> row.role]))
           ELSE /\ resp' = Respond("google_auth", GoogleIdentity(r.public_id),
                                   NoId, 500, NoBody)
                /\ UNCHANGED users
        /\ UNCHANGED <<items, reports, resolutions, notifications, hist,
                       blobs, now>>

\* Lines 104-127 of refresh_token: the new token keeps sub and role of the
\* old one and has no hostel claim.
RefreshToken(tok) ==
    LET user == UserByPublicId(tok.sub)
    IN  /\ IF user = NoId \/ users[user].is_banned
           THEN resp' = Respond("refresh_token", tok, NoId, 403, NoBody)
           ELSE resp' = Respond("refresh_token", tok, NoId, 200,
                                TokenBody([sub |-> tok.sub, hostel |-> None,
                                           role |-> tok.role]))
        /\ UNCHANGED <<users, items, reports, resolutions, notifications,
                       inflight, hist, blobs, now>>

\* set_hostel: the user lookup comes before the validation of the payload.
SetHostel(tok, hostel) ==
    LET user == GetDbUser(tok.sub)
        code == IF user = NoId THEN 404
                ELSE IF hostel \notin HostelType THEN 400
                ELSE 200
    IN  /\ users' = IF code = 200 THEN [users EXCEPT ![user].hostel = hostel]
                    ELSE users
        /\ resp' = Respond("set_hostel", tok, NoId, code, NoBody)
        /\ UNCHANGED <<items, reports, resolutions, notifications, inflight,
                       hist, blobs, now>>

\* Lines 40-46 of set_phone: the user lookup and the test of the phone
\* that the lookup read; phone is the payload after its validation.
PhoneLoad(tok, phone) ==
    LET user == GetDbUser(tok.sub)
        Reject(code) ==
            /\ resp' = Respond("set_phone", tok, NoId, code, NoBody)
            /\ UNCHANGED inflight
    IN  /\ BagCardinality(inflight) < MaxInFlight
        /\ IF user = NoId THEN Reject(404)
           ELSE IF users[user].phone # None THEN Reject(403)
           ELSE /\ inflight' = Add(inflight,
                      [op |-> "set_phone", user_id |-> user, tok |-> tok,
                       phone |-> phone, pc |-> "commit"])
                /\ UNCHANGED resp
        /\ UNCHANGED <<users, items, reports, resolutions, notifications,
                       hist, blobs, now>>

\* Lines 48-53: the assignment and its commit, an UPDATE of the phone
\* column of the row.
PhoneCommit(r) ==
    /\ r \in Requests("set_phone") /\ r.pc = "commit"
    /\ users' = [users EXCEPT ![r.user_id].phone = r.phone]
    /\ inflight' = Remove(inflight, r)
    /\ resp' = Respond("set_phone", r.tok, NoId, 200, NoBody)
    /\ UNCHANGED <<items, reports, resolutions, notifications, hist, blobs,
                   now>>

ModerateUserAction == {"warn", "temp_ban", "perm_ban", "unban"}

\* The Notification row of lines 346-351.
WarningNotice(u) == [user_id |-> u, type |-> "warning_issued", item_id |-> NoId]

\* ban_days: Optional[int] = None. The ban_days of a request that supplies
\* none; the supplied ones are naturals.
NoDays == -1

\* days = payload.ban_days or 7: an absent ban_days and 0 both give 7.
BanDays(ban_days) ==
    IF ban_days = NoDays \/ ban_days = 0 THEN DEFAULT_BAN_DAYS ELSE ban_days

\* The users table as the branches of lines 343-344, 360-364 and 371-374
\* leave it for the commit; count is the warning_count that session.get
\* read.
WarnedUsers(user_id, count) ==
    [users EXCEPT ![user_id].warning_count = count + 1]

ModeratedUsers(user_id, action, ban_days) ==
    IF action = "warn"
    THEN WarnedUsers(user_id, users[user_id].warning_count)
    ELSE IF action = "temp_ban"
    THEN [users EXCEPT ![user_id].is_banned = TRUE,
                       ![user_id].ban_reason = "Temporary ban by admin",
                       ![user_id].ban_until = now + BanDays(ban_days)]
    ELSE [users EXCEPT ![user_id].is_banned = FALSE,
                       ![user_id].ban_reason = None,
                       ![user_id].ban_until = NoTime]

ModeratedNotifications(user_id, action) ==
    IF action = "warn" THEN Add(notifications, WarningNotice(user_id))
    ELSE notifications

\* The status code of moderate_user whose commits succeed; perm_ban is
\* commented out in the handler and falls to "Invalid action".
ModerateUserCode(tok, user_id, action) ==
    LET gate == RequireAdminCode(tok.sub)
    IN  IF gate # 200 THEN gate
        ELSE IF user_id \notin DOMAIN users THEN 404
        ELSE IF action \notin {"warn", "temp_ban", "unban"} THEN 400
        ELSE 200

\* moderate_user behind the admin dependency, the request running alone.
ModerateUser(tok, user_id, action, ban_days) ==
    LET code == ModerateUserCode(tok, user_id, action)
        done == code = 200
    IN  /\ (action = "warn" /\ user_id \in DOMAIN users)
           => users[user_id].warning_count < MaxWarnings
        /\ resp' = Respond("moderate_user", tok, NoId, code,
                           [items |-> {}, user_id |-> user_id, action |-> action])
        /\ users' = IF done THEN ModeratedUsers(user_id, action, ban_days)
                    ELSE users
        /\ notifications' = IF done THEN ModeratedNotifications(user_id, action)
                            ELSE notifications
        /\ UNCHANGED <<items, reports, resolutions, inflight, hist, blobs, now>>

\* moderate_user whose commit (line 355 for warn, line 380 otherwise)
\* raises: the except branch rolls the session back and answers 500.
ModerateUserFails(tok, user_id, action, ban_days) ==
    /\ ModerateUserCode(tok, user_id, action) = 200
    /\ action = "warn" => users[user_id].warning_count < MaxWarnings
    /\ resp' = Respond("moderate_user", tok, NoId, 500,
                       [items |-> {}, user_id |-> user_id, action |-> action])
    /\ users' = Rollback(users, ModeratedUsers(user_id, action, ban_days))
    /\ notifications' = Rollback(notifications,
                                 ModeratedNotifications(user_id, action))
    /\ UNCHANGED <<items, reports, resolutions, inflight, hist, blobs, now>>

\* The warning_issued notifications of user u.
WarningNoticeCount(u) ==
    SumCopies(notifications,
              {n \in BagToSet(notifications) :
                  n.type = "warning_issued" /\ n.user_id = u})

WarnRequests == {r \in Requests("moderate_user") : r.action = "warn"}

\* moderate_user with action warn next to other requests, up to line 339:
\* the admin dependency and session.get, which reads the row and with it
\* the warning_count that line 344 adds one to.
WarnLoad(tok, user_id) ==
    LET code == ModerateUserCode(tok, user_id, "warn")
    IN  /\ BagCardinality(inflight) < MaxInFlight
        /\ BagCardinality(notifications) + BagCardinality(inflight)
              < MaxWarnRequests
        /\ IF code # 200
           THEN /\ resp' = Respond("moderate_user", tok, NoId, code,
                                   [items |-> {}, user_id |-> user_id,
                                    action |-> "warn"])
                /\ UNCHANGED inflight
           ELSE /\ inflight' = Add(inflight,
                      [op |-> "moderate_user", action |-> "warn",
                       tok |-> tok, user_id |-> user_id,
                       count |-> users[user_id].warning_count,
                       pc |-> "commit"])
                /\ UNCHANGED resp
        /\ UNCHANGED <<users, items, reports, resolutions, notifications,
                       hist, blobs, now>>

\* Lines 344-355 and 379-388: the commit writes the count that was read
\* plus one and inserts the notification; the commit of line 380 has
\* nothing left to write.
WarnCommit(r) ==
    /\ r \in WarnRequests /\ r.pc = "commit"
    /\ users' = WarnedUsers(r.user_id, r.count)
    /\ notifications' = ModeratedNotifications(r.user_id, "warn")
    /\ inflight' = Remove(inflight, r)
    /\ resp' = Respond("moderate_user", r.tok, NoId, 200,
                       [items |-> {}, user_id |-> r.user_id, action |-> "warn"])
    /\ UNCHANGED <<items, reports, resolutions, hist, blobs, now>>

\* Lines 356-358: the commit of line 355 raises and is rolled back.
WarnFail(r) ==
    /\ r \in WarnRequests /\ r.pc = "commit"
    /\ users' = Rollback(users, WarnedUsers(r.user_id, r.count))
    /\ notifications' = Rollback(notifications,
                                 ModeratedNotifications(r.user_id, "warn"))
    /\ inflight' = Remove(inflight, r)
    /\ resp' = Respond("moderate_user", r.tok, NoId, 500,
                       [items |-> {}, user_id |-> r.user_id, action |-> "warn"])
    /\ UNCHANGED <<items, reports, resolutions, hist, blobs, now>>

BanRequests ==
    {r \in Requests("moderate_user") : r.action \in {"temp_ban", "unban"}}

\* moderate_user with a ban action next to other requests, up to line 339:
\* the admin dependency and session.get, which reads the user's row.
BanLoad(tok, user_id, action, ban_days) ==
    LET code == ModerateUserCode(tok, user_id, action)
    IN  /\ action \in {"temp_ban", "perm_ban", "unban"}
        /\ BagCardinality(inflight) < MaxInFlight
        /\ IF code # 200
           THEN /\ resp' = Respond("moderate_user", tok, NoId, code,
                                   [items |-> {}, user_id |-> user_id,
                                    action |-> action])
                /\ UNCHANGED inflight
           ELSE /\ inflight' = Add(inflight,
                      [op |-> "moderate_user", action |-> action,
                       tok |-> tok, user_id |-> user_id,
                       ban_days |-> ban_days,
                       is_banned |-> users[user_id].is_banned,
                       ban_reason |-> users[user_id].ban_reason,
                       ban_until |-> users[user_id].ban_until,
                       pc |-> "commit"])
                /\ UNCHANGED resp
        /\ UNCHANGED <<users, items, reports, resolutions, notifications,
                       hist, blobs, now>>

\* The flush of the session: the UPDATE sets the columns whose assigned
\* value differs from the value the session loaded. The ban_until of
\* temp_ban is a new timestamp, which differs from every loaded one.
WriteChangedBan(row, loaded, assigned) ==
    [row EXCEPT !.is_banned = IF assigned.is_banned # loaded.is_banned
                              THEN assigned.is_banned ELSE @,
                !.ban_reason = IF assigned.ban_reason # loaded.ban_reason
                               THEN assigned.ban_reason ELSE @,
                !.ban_until = IF assigned.is_banned
                                 \/ assigned.ban_until # loaded.ban_until
                              THEN assigned.ban_until ELSE @]

\* Lines 360-364, 371-374 and 379-388: the assignments and the commit.
BanCommit(r) ==
    LET assigned == ModeratedUsers(r.user_id, r.action, r.ban_days)[r.user_id]
    IN  /\ r \in BanRequests /\ r.pc = "commit"
        /\ users' = [users EXCEPT ![r.user_id] = WriteChangedBan(@, r, assigned)]
        /\ inflight' = Remove(inflight, r)
        /\ resp' = Respond("moderate_user", r.tok, NoId, 200,
                           [items |-> {}, user_id |-> r.user_id,
                            action |-> r.action])
        /\ UNCHANGED <<items, reports, resolutions, notifications, hist,
                       blobs, now>>

\* A day passes.
Tick ==
    /\ now < MaxDay
    /\ now' = now + 1
    /\ UNCHANGED <<users, items, reports, resolutions, notifications,
                   inflight, resp, hist, blobs>>

\* The ban scenario: the owner and an admin exist, a newcomer logs in for
\* the first time, possibly twice at once; the admin bans and unbans the
\* owner while the days pass.
BanUsers == {OwnerId, AdminId}

\* The Google identities that log in: an invalid ID token, the users of
\* the store and the newcomer.
NewIdentity == PublicId(Cardinality(BanUsers) + 1)

LoginIdentities == {NoId, PublicId(OwnerId), NewIdentity}

\* The ban_days of the admin's requests: none, zero and one day.
BanDayInputs == {NoDays, 0, 1}

InitBan ==
    /\ users = [u \in BanUsers |->
                   NewUser(u, None, IF u = AdminId THEN "admin" ELSE "user")]
    /\ items = << >>
    /\ reports = EmptyBag
    /\ resolutions = EmptyBag
    /\ notifications = EmptyBag
    /\ inflight = EmptyBag
    /\ resp = NoResp
    /\ hist = [reached |-> {}, admin_hid |-> {}, hid_at |-> NoTime]
    /\ blobs = {}
    /\ now = 1

NextBan ==
    \/ \E g \in LoginIdentities : GoogleLookup(g)
    \/ \E r \in Requests("google_auth") : GoogleInsert(r)
    \/ RefreshToken(IssueToken(OwnerId))
    \/ \E h \in {"boys", "staff"} : SetHostel(IssueToken(OwnerId), h)
    \/ \E target \in {OwnerId, NoId}, action \in {"temp_ban", "perm_ban", "unban"},
          ban_days \in BanDayInputs :
           ModerateUser(IssueToken(AdminId), target, action, ban_days)
    \/ Tick

SpecBan == InitBan /\ [][NextBan]_vars

\* The unban scenario: the admin bans and unbans the owner, possibly with
\* two requests at once, while the days pass.
InitUnban == InitBan

NextUnban ==
    \/ \E target \in {OwnerId, NoId}, action \in {"temp_ban", "perm_ban", "unban"},
          ban_days \in {NoDays, 1} :
           BanLoad(IssueToken(AdminId), target, action, ban_days)
    \/ \E r \in BanRequests : BanCommit(r)
    \/ Tick

SpecUnban == InitUnban /\ [][NextUnban]_vars

\* The profile scenario: the owner and a second user set their phone and
\* their hostel and log in, the owner possibly with two requests at once.
PhoneUsers == {OwnerId, AdminId}

\* Phone numbers that pass the validation of PhoneSetPayload.
Phones == {"+911234567890", "+919876543210"}

InitPhone ==
    /\ users = [u \in PhoneUsers |-> NewUser(u, None, "user")]
    /\ items = << >>
    /\ reports = EmptyBag
    /\ resolutions = EmptyBag
    /\ notifications = EmptyBag
    /\ inflight = EmptyBag
    /\ resp = NoResp
    /\ hist = [reached |-> {}, admin_hid |-> {}, hid_at |-> NoTime]
    /\ blobs = {}
    /\ now = 1

NextPhone ==
    \/ \E u \in PhoneUsers, phone \in Phones : PhoneLoad(IssueToken(u), phone)
    \/ \E r \in Requests("set_phone") : PhoneCommit(r)
    \/ \E h \in {"boys", "staff"} : SetHostel(IssueToken(OwnerId), h)
    \/ GoogleLookup(PublicId(OwnerId))

SpecPhone == InitPhone /\ [][NextPhone]_vars

\* The warn scenario: the admin warns the owner, possibly with several
\* requests at once, bans and unbans the owner, and the owner logs in and
\* sets the hostel.
InitWarn == InitBan

NextWarn ==
    \/ \E target \in {OwnerId, NoId} : WarnLoad(IssueToken(AdminId), target)
    \/ \E r \in WarnRequests : WarnCommit(r)
    \/ \E r \in WarnRequests : WarnFail(r)
    \/ \E action \in {"temp_ban", "unban"} :
           ModerateUser(IssueToken(AdminId), OwnerId, action, 1)
    \/ \E action \in {"temp_ban", "unban"} :
           ModerateUserFails(IssueToken(AdminId), OwnerId, action, 1)
    \/ SetHostel(IssueToken(OwnerId), "boys")
    \/ GoogleLookup(PublicId(OwnerId))

SpecWarn == InitWarn /\ [][NextWarn]_vars

\* The update scenario: the owner and another user patch the owner's two
\* items with requests that supply none, one or several fields, one of
\* them a null, while the admin hides and restores item 1.
UpdateUsers == {OwnerId, AdminId, AdminId + 1}

UpdateInputs ==
    {NoUpdate,
     [title |-> "new title"],
     [visibility |-> "boys"],
     [title |-> "new title", location |-> "new location"],
     [description |-> "new description", category |-> "keys-wallets",
      date |-> "new date"],
     [title |-> None]}

InitUpdate ==
    /\ users = [u \in UpdateUsers |->
                   NewUser(u, None, IF u = AdminId THEN "admin" ELSE "user")]
    /\ items = [i \in {1, 2} |-> NewItem(i, OwnerId, "lost", "public")]
    /\ reports = EmptyBag
    /\ resolutions = EmptyBag
    /\ notifications = EmptyBag
    /\ inflight = EmptyBag
    /\ resp = NoResp
    /\ hist = [reached |-> {}, admin_hid |-> {}, hid_at |-> NoTime]
    /\ blobs = {items[i].image : i \in DOMAIN items}
    /\ now = 1

NextUpdate ==
    \/ \E u \in {OwnerId, AdminId + 1}, id \in {1, 2},
          updates \in UpdateInputs : UpdateItem(u, id, updates)
    \/ \E action \in {"hide", "restore"} :
           ModerateItem(IssueToken(AdminId), 1, action)

SpecUpdate == InitUpdate /\ [][NextUpdate]_vars

\* The admin scenario: the owner, an admin who may ban and warn the owner
\* and the admin's own row, and a third user whose role is user in the
\* store while the token in hand was issued with role admin; one item of
\* the owner with a report of the third user.
AdminUsers == {OwnerId, AdminId, AdminId + 1}

\* The tokens in the callers' hands.
AdminTokens ==
    {IssueToken(OwnerId), IssueToken(AdminId),
     [IssueToken(AdminId + 1) EXCEPT !.role = "admin"]}

InitAdmin ==
    /\ users = [u \in AdminUsers |->
                   NewUser(u, None, IF u = AdminId THEN "admin" ELSE "user")]
    /\ items = [i \in {1} |-> NewItem(i, OwnerId, "found", "public")]
    /\ reports = SetToBag({ReportRow(AdminId + 1, 1)})
    /\ resolutions = EmptyBag
    /\ notifications = EmptyBag
    /\ inflight = EmptyBag
    /\ resp = NoResp
    /\ hist = [reached |-> {}, admin_hid |-> {}, hid_at |-> NoTime]
    /\ blobs = {items[i].image : i \in DOMAIN items}
    /\ now = 1

NextAdmin ==
    \/ \E tok \in AdminTokens, target \in {OwnerId, AdminId},
          action \in ModerateUserAction, ban_days \in {0, 1} :
           ModerateUser(tok, target, action, ban_days)
    \/ \E tok \in AdminTokens, id \in {1}, action \in ModerateItemAction :
           ModerateItem(tok, id, action)
    \/ \E target \in {OwnerId, AdminId}, action \in ModerateUserAction :
           ModerateUserFails(IssueToken(AdminId), target, action, 1)
    \/ \E action \in ModerateItemAction :
           ModerateItemFails(IssueToken(AdminId), 1, action)

SpecAdmin == InitAdmin /\ [][NextAdmin]_vars

\* The restore scenario: two admins hide, restore and delete the owner's
\* item, which the third user has reported, while the days pass.
OtherAdminId == AdminId + 2

RestoreUsers == {OwnerId, AdminId, AdminId + 1, OtherAdminId}

InitRestore ==
    /\ users = [u \in RestoreUsers |->
                   NewUser(u, None, IF u \in {AdminId, OtherAdminId}
                                    THEN "admin" ELSE "user")]
    /\ items = [i \in {1} |-> NewItem(i, OwnerId, "found", "public")]
    /\ reports = SetToBag({ReportRow(AdminId + 1, 1)})
    /\ resolutions = EmptyBag
    /\ notifications = EmptyBag
    /\ inflight = EmptyBag
    /\ resp = NoResp
    /\ hist = [reached |-> {}, admin_hid |-> {}, hid_at |-> NoTime]
    /\ blobs = {items[i].image : i \in DOMAIN items}
    /\ now = 1

NextRestore ==
    \/ \E a \in {AdminId, OtherAdminId}, id \in {1},
          action \in ModerateItemAction :
           ModerateItem(IssueToken(a), id, action)
    \/ Tick

SpecRestore == InitRestore /\ [][NextRestore]_vars

\* get_all_items arriving with the caller's token and the page asked for.
GetAllItemsArrives(tok, page, limit) ==
    /\ BagCardinality(inflight) < MaxInFlight
    /\ inflight' = Add(inflight, [op |-> "get_all_items", tok |-> tok,
                                  page |-> page, limit |-> limit])
    /\ UNCHANGED <<users, items, reports, resolutions, notifications, resp,
                   hist, blobs, now>>

\* The session scenario: a viewer logs in, sets the hostel and reads the
\* owner's items, one of them scoped to a hostel, always with the token of
\* the last answer.
ViewerId == OwnerId + 1

SessionUsers == {OwnerId, ViewerId}

\* The token the viewer's client holds: the one of the last login or
\* refresh answer, else the one the last request was sent with.
HeldToken ==
    IF resp.op \in {"google_auth", "refresh_token"} /\ resp.code = 200
    THEN resp.body.token
    ELSE resp.tok

InitSession ==
    /\ \E h \in {None, "boys"} :
           users = [u \in SessionUsers |->
                       NewUser(u, IF u = ViewerId THEN h ELSE None, "user")]
    /\ items = [i \in ReadItems |->
                   NewItem(i, OwnerId, "found",
                           IF i = 1 THEN "boys" ELSE "public")]
    /\ reports = EmptyBag
    /\ resolutions = EmptyBag
    /\ notifications = EmptyBag
    /\ inflight = EmptyBag
    /\ resp = NoResp
    /\ hist = [reached |-> {}, admin_hid |-> {}, hid_at |-> NoTime]
    /\ blobs = {items[i].image : i \in DOMAIN items}
    /\ now = 1

NextScope ==
    \/ GoogleLookup(PublicId(ViewerId))
    \/ \E h \in {"boys", "girls"} :
           HeldToken # NoToken /\ SetHostel(HeldToken, h)
    \/ \E id \in ReadItems : GetItemArrives(HeldToken, id)
    \/ GetAllItemsArrives(HeldToken, 1, DEFAULT_LIMIT)
    \/ \E r \in Requests("get_item") : GetItem(r)
    \/ \E r \in Requests("get_all_items") : GetAllItems(r)

SpecScope == InitSession /\ [][NextScope]_vars

\* The same with refreshes of the held token.
NextSession ==
    \/ NextScope
    \/ HeldToken # NoToken /\ RefreshToken(HeldToken)

SpecSession == InitSession /\ [][NextSession]_vars

\* The hide scenario: the owner's item, visible or hidden by the threshold
\* with its five reports and its notification; the admin hides and
\* restores it, possibly with two requests at once, and the owner edits it.
AutoHidden ==
    [NewItem(1, OwnerId, "found", "public")
        EXCEPT !.is_hidden = TRUE, !.hidden_reason = "auto_report_threshold"]

InitHide ==
    /\ users = [u \in ReportUsers |->
                   NewUser(u, None, IF u = AdminId THEN "admin" ELSE "user")]
    /\ \/ /\ items = [i \in {1} |-> NewItem(i, OwnerId, "found", "public")]
          /\ reports = EmptyBag
          /\ notifications = EmptyBag
       \/ /\ items = [i \in {1} |-> AutoHidden]
          /\ reports = SetToBag({ReportRow(u, 1) :
                                    u \in 3 .. (AUTO_HIDE_THRESHOLD + 2)})
          /\ notifications = SetToBag({HideNotice(OwnerId, 1)})
    /\ resolutions = EmptyBag
    /\ inflight = EmptyBag
    /\ resp = NoResp
    /\ hist = [reached |-> {}, admin_hid |-> {}, hid_at |-> NoTime]
    /\ blobs = {items[i].image : i \in DOMAIN items}
    /\ now = 1

NextHide ==
    \/ \E u \in {AdminId, OwnerId}, id \in {1, 2},
          action \in {"hide", "restore"} :
           ModerateItemLoad(IssueToken(u), id, action)
    \/ \E r \in Requests("moderate_item") : ModerateItemCommit(r)
    \/ \E updates \in ItemUpdates : UpdateItem(OwnerId, 1, updates)

SpecHide == InitHide /\ [][NextHide]_vars

\* The review scenario: the owner's item has pending reports one short of
\* the threshold; a user who has not reported yet, one who has and the
\* owner report item 1 or an item that does not exist, while the owner
\* edits the item and the admin moderates the item and the owner.
ReviewUsers == ReportUsers

Reported == 3 .. (AUTO_HIDE_THRESHOLD + 1)

Reporting == {OwnerId, 3, NumReporters + 1}

InitReview ==
    /\ users = [u \in ReviewUsers |->
                   NewUser(u, None, IF u = AdminId THEN "admin" ELSE "user")]
    /\ items = [i \in {1} |-> NewItem(i, OwnerId, "found", "public")]
    /\ reports = SetToBag({ReportRow(u, 1) : u \in Reported})
    /\ resolutions = EmptyBag
    /\ notifications = EmptyBag
    /\ inflight = EmptyBag
    /\ resp = NoResp
    /\ hist = [reached |-> {}, admin_hid |-> {}, hid_at |-> NoTime]
    /\ blobs = {items[i].image : i \in DOMAIN items}
    /\ now = 1

NextReview ==
    \/ \E u \in Reporting, id \in {1, 2} : ReportLoad(u, id)
    \/ \E r \in ReportRequests : ReportCommit(r)
    \/ \E r \in ReportRequests : ReportCount(r)
    \/ \E r \in ReportRequests : ReportHide(r)
    \/ \E r \in ReportRequests : ReportAbort(r)
    \/ \E updates \in ItemUpdates : UpdateItem(OwnerId, 1, updates)
    \/ \E action \in ModerateItemAction :
           ModerateItem(IssueToken(AdminId), 1, action)
    \/ \E action \in ModerateUserAction :
           ModerateUser(IssueToken(AdminId), OwnerId, action, 1)

SpecReview == InitReview /\ [][NextReview]_vars

----------------------------------------------------------------------------
(* Properties of the report scenario. *)

RowCount(bag, u, i) ==
    SumCopies(bag, {r \in BagToSet(bag) : r.user_id = u /\ r.item_id = i})

\* The step ends a report_item request.
ReportCompletes == BagCardinality(inflight') < BagCardinality(inflight)

\* C1: whatever the interleaving of report_item calls, the reports table
\* never holds two rows with the same (user_id, item_id), and a report_item
\* call that reaches its insert while the user already has a row for the
\* item is answered 409 and leaves the reports table as it was.
C1_OneReportPerUserItem ==
    [][ /\ \A u \in DOMAIN users, i \in DOMAIN items :
              RowCount(reports', u, i) <= 1
        /\ \A r \in ReportRequests :
              ( /\ r.pc = "add"
                /\ CopiesIn(r, inflight') < CopiesIn(r, inflight)
                /\ ReportsOf(r.user_id, r.item_id) # {} )
              => ( /\ reports' = reports
                   /\ resp'.op = "report_item"
                   /\ resp'.code = 409 )
      ]_vars

\* A duplicate report has been answered 409 while the first row is stored.
C1_Witness ==
    /\ resp.op = "report_item" /\ resp.code = 409
    /\ \E u \in DOMAIN users : RowCount(reports, u, resp.item_id) = 1

\* C3: however the report_item calls that file the 5th and later pending
\* reports interleave, at most one system_notice about the hide is created
\* for the item's owner (the claim as stated; the code violates it).
C3_OneHideNotice ==
    \A i \in DOMAIN items : HideNoticeCount(i) <= 1

\* C4: when a report_item call completes with 200 and the item then has
\* AUTO_HIDE_THRESHOLD or more pending reports, the item is hidden with
\* reason auto_report_threshold and the owner has a system_notice; an item
\* that never had that many pending reports and that no admin hid is not
\* hidden and has no such notice.
C4_ThresholdHides ==
    [][ /\ ( /\ ReportCompletes
             /\ resp'.op = "report_item" /\ resp'.code = 200
             /\ PendingCountIn(reports', resp'.item_id) >= AUTO_HIDE_THRESHOLD )
           => ( /\ items'[resp'.item_id].is_hidden
                /\ items'[resp'.item_id].hidden_reason = "auto_report_threshold"
                /\ BagIn(HideNotice(items'[resp'.item_id].user_id, resp'.item_id),
                         notifications') )
        /\ \A i \in DOMAIN items' :
              (i \notin hist'.reached /\ i \notin hist'.admin_hid)
              => (~items'[i].is_hidden /\ HideNoticeCountIn(notifications', i) = 0)
      ]_vars

\* A call has completed with 200 on an item with five pending reports, and
\* the item is hidden by the threshold with its owner notified.
C4_Witness ==
    /\ resp.op = "report_item" /\ resp.code = 200
    /\ resp.item_id \in DOMAIN items
    /\ PendingCount(resp.item_id) >= AUTO_HIDE_THRESHOLD
    /\ items[resp.item_id].is_hidden
    /\ items[resp.item_id].hidden_reason = "auto_report_threshold"
    /\ HideNoticeCount(resp.item_id) = 1
    /\ resp.item_id \notin hist.admin_hid

\* C5: the insert, the count, the hide and the notification are one atomic
\* step, so no state shows an item with AUTO_HIDE_THRESHOLD or more pending
\* reports that is not hidden, and with no call in flight such an item has
\* its notice (the claim as stated; the code violates it).
C5_AtomicThreshold ==
    \A i \in DOMAIN items :
        PendingCount(i) >= AUTO_HIDE_THRESHOLD
        => ( /\ items[i].is_hidden
             /\ (ReportRequests = {} => HideNoticeCount(i) >= 1) )

----------------------------------------------------------------------------
(* Properties of the claim scenario. *)

\* C2: for every found item, in every reachable state at most one
\* Resolution with status pending or approved references it, concurrent
\* claims included (the claim as stated; the store does not enforce it).
C2_OneActiveResolution ==
    \A i \in DOMAIN items : ActiveResolutionCount(i) <= 1

----------------------------------------------------------------------------
(* Properties of the read scenario. The store does not change in it, so a  *)
(* response is compared with the tables of the state that holds it.        *)

\* A token with the given hostel and role claims.
ViewerToken(hostel, role) ==
    [sub |-> PublicId(OwnerId), hostel |-> hostel, role |-> role]

WithoutItem(store, id) == [i \in DOMAIN store \ {id} |-> store[i]]

\* The response is get_item's, for an item of the store.
GotItem == resp.op = "get_item" /\ resp.item_id \in DOMAIN items

\* C6: for a non-admin viewer get_item returns an existing item if and only
\* if the item is not hidden and its visibility is public or the viewer's
\* affiliation; a viewer without affiliation (anonymous or not) gets exactly
\* the non-hidden public items.
C6_NonAdminVisibility ==
    (GotItem /\ ~TokenIsAdmin(resp.tok))
    => LET item == items[resp.item_id]
           aff == TokenHostel(resp.tok)
       IN  /\ resp.code = 200
              <=> (~item.is_hidden
                   /\ (item.visibility = "public" \/ item.visibility = aff))
           /\ resp.code = 200 => resp.body.items = {resp.item_id}
           /\ resp.code # 200 => resp.body.items = {}
           /\ (resp.tok = NoToken \/ aff = None)
              => (resp.code = 200
                  <=> (~item.is_hidden /\ item.visibility = "public"))

\* A non-admin with an affiliation has fetched an item scoped to it.
C6_Witness ==
    /\ GotItem /\ ~TokenIsAdmin(resp.tok)
    /\ TokenHostel(resp.tok) \in HostelType
    /\ items[resp.item_id].visibility = TokenHostel(resp.tok)
    /\ resp.code = 200

\* C7: a viewer whose role is admin fetches every existing item through
\* get_item, hidden or not, whatever its visibility and whatever the
\* admin's own affiliation (the claim as stated; the code violates it).
C7_AdminSeesAll ==
    (GotItem /\ TokenIsAdmin(resp.tok)) => resp.code = 200

\* C8: get_item, get_all_items and get_profile never return to a non-admin
\* viewer an item that is hidden or whose visibility is neither public nor
\* the viewer's affiliation, taken from the token or from the viewer's row
\* (the claim as stated; the code violates it).
C8_UniformVisibility ==
    ( /\ resp.op \in {"get_item", "get_all_items", "get_profile"}
      /\ ~TokenIsAdmin(resp.tok) )
    => \A i \in resp.body.items :
           /\ ~items[i].is_hidden
           /\ \/ items[i].visibility = "public"
              \/ items[i].visibility = TokenHostel(resp.tok)
              \/ items[i].visibility = ViewerHostel(resp.tok)

\* C9: for every item and every affiliation (none included), if get_item
\* returns the item to a non-admin viewer with that affiliation, it returns
\* it to an admin viewer with the same affiliation.
C9_AdminMonotonic ==
    /\ \A id \in DOMAIN items, h \in HostelType \cup {None} :
          GetItemCode(items, ViewerToken(h, "user"), id) = 200
          => GetItemCode(items, ViewerToken(h, "admin"), id) = 200
    /\ \A id \in DOMAIN items :
          GetItemCode(items, NoToken, id) = 200
          => GetItemCode(items, ViewerToken(None, "admin"), id) = 200
    /\ (GotItem /\ ~TokenIsAdmin(resp.tok) /\ resp.code = 200)
       => GetItemCode(items, ViewerToken(TokenHostel(resp.tok), "admin"),
                      resp.item_id) = 200

\* An admin has fetched an item that a non-admin with the same affiliation
\* gets as well.
C9_Witness ==
    /\ GotItem /\ TokenIsAdmin(resp.tok) /\ resp.code = 200
    /\ GetItemCode(items, ViewerToken(TokenHostel(resp.tok), "user"),
                   resp.item_id) = 200

\* C10: for a non-admin caller the response of get_item for an item that
\* exists but is filtered out (hidden, or of another affiliation's scope) is
\* the response the store without that item gives (the claim as stated; the
\* code violates it).
C10_FilteredLikeMissing ==
    ( /\ GotItem /\ ~TokenIsAdmin(resp.tok)
      /\ \/ items[resp.item_id].is_hidden
         \/ ( /\ items[resp.item_id].visibility # "public"
              /\ items[resp.item_id].visibility # TokenHostel(resp.tok) ) )
    => /\ resp.code =
            GetItemCode(WithoutItem(items, resp.item_id), resp.tok, resp.item_id)
       /\ resp.body = NoBody

\* C11: a found item with visibility girls created by a user with
\* affiliation boys is returned by get_item to that user as its owner, is
\* not returned to another user with affiliation boys and is returned to
\* another user with affiliation girls (the claim as stated; the code
\* violates it).
C11_OwnerReadsOwnItem ==
    \A id \in DOMAIN items :
        LET item == items[id]
            owner == users[item.user_id]
            Stranger(h) == [sub |-> PublicId(AdminId), hostel |-> h,
                            role |-> "user"]
        IN  ( /\ item.type = "found" /\ item.visibility = "girls"
              /\ ~item.is_hidden /\ owner.hostel = "boys" )
            => /\ ( /\ resp.op = "get_item" /\ resp.item_id = id
                    /\ resp.tok = [IssueToken(item.user_id) EXCEPT !.hostel = "boys"] )
                  => resp.code = 200
               /\ GetItemCode(items, Stranger("boys"), id) # 200
               /\ GetItemCode(items, Stranger("girls"), id) = 200

----------------------------------------------------------------------------
(* Properties of the item scenario. Every step of it is one whole request, *)
(* and resp' is the response of the step.                                  *)

\* A pending or approved Resolution references item id.
ActivelyClaimed(id) ==
    \E x \in BagToSet(resolutions) :
        x.found_item_id = id /\ x.status \in ActiveStatus

\* The user row of the caller of the step's request.
Caller == UserByPublicId(resp'.tok.sub)

\* No Report and no Resolution of the next state references item id.
NoDependents(id) ==
    /\ \A r \in BagToSet(reports') : r.item_id # id
    /\ \A x \in BagToSet(resolutions') : x.found_item_id # id

\* C12: update_item on an item that has a pending or approved Resolution
\* is rejected, for the owner as well, and leaves every field of the item
\* as it was.
C12_ClaimedItemNotEditable ==
    [][ ( /\ resp'.op = "update_item"
          /\ resp'.item_id \in DOMAIN items
          /\ ActivelyClaimed(resp'.item_id) )
        => (resp'.code # 200 /\ items' = items)
      ]_vars

\* The owner's update of the visible, actively claimed item was rejected.
C12_Witness ==
    /\ resp.op = "update_item" /\ resp.code = 400
    /\ resp.item_id \in DOMAIN items
    /\ ~items[resp.item_id].is_hidden
    /\ ActivelyClaimed(resp.item_id)
    /\ resp.tok.sub = users[items[resp.item_id].user_id].public_id

\* C13: update_item by an authenticated user who does not own the item is
\* answered Forbidden and leaves the item as it was, with or without an
\* active Resolution on it (the claim as stated; the code violates it).
C13_NonOwnerForbidden ==
    [][ ( /\ resp'.op = "update_item"
          /\ resp'.item_id \in DOMAIN items
          /\ ~items[resp'.item_id].is_hidden
          /\ Caller # NoId /\ ~users[Caller].is_banned
          /\ items[resp'.item_id].user_id # Caller )
        => (resp'.code = 403 /\ items' = items)
      ]_vars

\* C14: delete_item by the owner of an existing item that is not hidden
\* succeeds, and afterwards the item row and every Report and Resolution
\* that referenced it are gone (the claim as stated; the code violates it).
C14_OwnerDeleteCascades ==
    [][ ( /\ resp'.op = "delete_item"
          /\ resp'.item_id \in DOMAIN items
          /\ ~items[resp'.item_id].is_hidden
          /\ Caller # NoId /\ ~users[Caller].is_banned
          /\ items[resp'.item_id].user_id = Caller )
        => ( /\ resp'.code = 200
             /\ resp'.item_id \notin DOMAIN items'
             /\ NoDependents(resp'.item_id) )
      ]_vars

C16_AdminDeleteCleansUp ==
    [][ ( /\ resp'.op = "moderate_item"
          /\ resp'.body.action = "delete"
          /\ RequireAdminCode(resp'.tok.sub) = 200
          /\ resp'.item_id \in DOMAIN items )
        => ( /\ resp'.item_id \notin DOMAIN items'
             /\ NoDependents(resp'.item_id)
             /\ items[resp'.item_id].image \notin blobs' )
      ]_vars

\* C18: a request of a user whose is_banned is true and whose ban_until is
\* absent or in the future is answered Unauthorized or Forbidden and
\* changes neither the items table nor the blob store (the claim as
\* stated; the code violates it).
C18_BannedHasNoAccess ==
    [][ ( /\ Caller # NoId
          /\ users[Caller].is_banned
          /\ (users[Caller].ban_until = NoTime \/ users[Caller].ban_until > now) )
        => ( /\ resp'.code \in {401, 403}
             /\ items' = items
             /\ blobs' = blobs )
      ]_vars

----------------------------------------------------------------------------
(* Properties of the ban scenario. *)

\* C17: a banned user stays rejected by google_auth, refresh_token and the
\* operations behind get_db_user also after ban_until has passed, and only
\* the unban of moderate_user sets is_banned back to false.
C17_NoImplicitUnban ==
    [][ /\ ( /\ resp' # resp
             /\ resp'.op \in {"google_auth", "refresh_token", "set_hostel"}
             /\ UserByPublicId(resp'.tok.sub) # NoId
             /\ users[UserByPublicId(resp'.tok.sub)].is_banned )
           => (resp'.code \notin {0, 200} /\ users' = users)
        /\ \A u \in DOMAIN users :
              (users[u].is_banned /\ ~users'[u].is_banned)
              => ( /\ resp'.op = "moderate_user" /\ resp'.code = 200
                   /\ resp'.body.action = "unban"
                   /\ resp'.body.user_id = u )
      ]_vars

\* The login of a user whose ban_until has passed has been rejected.
C17_Witness ==
    /\ resp.op = "google_auth" /\ resp.code = 403
    /\ UserByPublicId(resp.tok.sub) # NoId
    /\ users[UserByPublicId(resp.tok.sub)].is_banned
    /\ users[UserByPublicId(resp.tok.sub)].ban_until # NoTime
    /\ users[UserByPublicId(resp.tok.sub)].ban_until < now

\* C19: however the first logins of one identity interleave, one User row
\* with that public_id exists afterwards, with role user, no warning and no
\* ban, and each of those logins completes with a token of that row (the
\* claim as stated; the code violates it).
C19_LoginRaceSafe ==
    /\ \A g \in LoginIdentities :
          Cardinality({u \in DOMAIN users : users[u].public_id = g}) <= 1
    /\ (resp.op = "google_auth" /\ resp.tok.sub = NewIdentity)
       => /\ resp.code = 200
          /\ resp.body.token.sub = NewIdentity
          /\ \E u \in DOMAIN users :
                /\ users[u].public_id = NewIdentity
                /\ users[u].role = "user"
                /\ users[u].warning_count = 0
                /\ ~users[u].is_banned

----------------------------------------------------------------------------
(* Properties of the admin scenario. *)

\* C20: moderate_user and moderate_item take effect only when the role of
\* the caller's row is admin and the caller is not banned at the time of
\* the request; any other caller is rejected and nothing changes, also when
\* the caller's token carries role admin.
C20_PersistedRoleDecides ==
    [][ ( /\ resp'.op \in {"moderate_user", "moderate_item"}
          /\ \/ UserByPublicId(resp'.tok.sub) = NoId
             \/ users[UserByPublicId(resp'.tok.sub)].role # "admin"
             \/ users[UserByPublicId(resp'.tok.sub)].is_banned )
        => ( /\ resp'.code \in {401, 403, 404}
             /\ UNCHANGED <<users, items, reports, resolutions, notifications,
                            blobs>> )
      ]_vars

\* A caller whose token says admin and whose row says user was refused.
C20_Witness ==
    /\ resp.op \in {"moderate_user", "moderate_item"}
    /\ resp.tok.role = "admin"
    /\ UserByPublicId(resp.tok.sub) # NoId
    /\ users[UserByPublicId(resp.tok.sub)].role = "user"
    /\ resp.code = 403

----------------------------------------------------------------------------
(* Properties of the restore scenario. *)

\* The step is a successful moderate_item with this action.
Moderated(action) ==
    /\ resp'.op = "moderate_item"
    /\ resp'.code = 200
    /\ resp'.body.action = action

\* The users whose stored role is admin and whose public_id is sub.
AdminOf(sub) == CHOOSE u \in DOMAIN users : users[u].public_id = sub

\* C21: restore after an admin's hide leaves the item with is_hidden false
\* and no hidden_reason, and every report of the item that was pending is
\* afterwards reviewed, with reviewed_by the restoring admin and with
\* reviewed_at not earlier than the time of the hide.
C21_HideRestoreRoundTrip ==
    [][\A id \in DOMAIN items :
          (/\ Moderated("restore") /\ resp'.item_id = id
           /\ items[id].is_hidden
           /\ items[id].hidden_reason = "admin_moderation")
          => /\ id \in DOMAIN items'
             /\ ~items'[id].is_hidden
             /\ items'[id].hidden_reason = None
             /\ \A r \in BagToSet(reports) :
                    (r.item_id = id /\ r.status = "pending")
                    => \E x \in BagToSet(reports') :
                          /\ x.user_id = r.user_id /\ x.item_id = id
                          /\ x.status = "reviewed"
                          /\ x.reviewed_by = AdminOf(resp'.tok.sub)
                          /\ x.reviewed_at # NoTime
                          /\ x.reviewed_at >= hist.hid_at
             /\ PendingCountIn(reports', id) = 0
             /\ BagCardinality(reports') = BagCardinality(reports)]_vars

\* The other admin has restored, a day or more after the hide, the item
\* that an admin had hidden, and its report carries that admin's stamp.
C21_Witness ==
    /\ resp.op = "moderate_item" /\ resp.code = 200
    /\ resp.body.action = "restore"
    /\ resp.tok.sub = PublicId(OtherAdminId)
    /\ 1 \in hist.admin_hid
    /\ 1 \in DOMAIN items /\ ~items[1].is_hidden
    /\ \E x \in BagToSet(reports) :
          /\ x.item_id = 1 /\ x.status = "reviewed"
          /\ x.reviewed_by = OtherAdminId
          /\ x.reviewed_at > hist.hid_at

----------------------------------------------------------------------------
(* Properties of the review scenario. *)

\* C22: the status of a report changes only from pending to reviewed and
\* only in a successful restore of its item by an admin; report_item,
\* update_item, hide and moderate_user change no report's status, and a
\* reviewed report never becomes pending again.
C22_ReviewedOnlyByRestore ==
    [][\A r \in BagToSet(reports), x \in BagToSet(reports') :
          (/\ x.user_id = r.user_id /\ x.item_id = r.item_id
           /\ x.status # r.status)
          => /\ r.status = "pending" /\ x.status = "reviewed"
             /\ Moderated("restore") /\ resp'.item_id = r.item_id
             /\ r.item_id \in DOMAIN items'
             /\ ~items'[r.item_id].is_hidden]_vars

\* A restore has reviewed the reports, and afterwards a report_item, an
\* update_item and a moderate_user have been answered with the reports
\* still reviewed.
C22_Witness ==
    /\ resp.op \in {"report_item", "update_item", "moderate_user"}
    /\ resp.code = 200
    /\ \E x \in BagToSet(reports) : x.status = "reviewed"
    /\ \E x \in BagToSet(reports) : x.status = "pending"

\* C26: report_item for an item that does not exist or is hidden is
\* answered NotFound, and for the owner's own visible item it is answered
\* with the domain error 400 (an owner whom get_db_user does not resolve
\* is rejected by that lookup); in each case it inserts no Report row,
\* hides no item, creates no notification and the request goes no further.
C26_RejectedReportHasNoEffect ==
    [][\A u \in Reporting, id \in {1, 2} :
          (/\ ReportLoad(u, id)
           /\ \/ id \notin DOMAIN items
              \/ items[id].is_hidden
              \/ items[id].user_id = u)
          => /\ resp'.op = "report_item"
             /\ resp'.code = IF id \notin DOMAIN items THEN 404
                             ELSE IF items[id].is_hidden THEN 404
                             ELSE IF users[u].is_banned THEN 404
                             ELSE 400
             /\ UNCHANGED <<items, reports, notifications, inflight>>]_vars

\* The threshold has hidden item 1 and a later report_item for it was
\* answered 404 with the five reports and the one notification unchanged.
C26_Witness ==
    /\ resp.op = "report_item" /\ resp.code = 404 /\ resp.item_id = 1
    /\ 1 \in DOMAIN items /\ items[1].is_hidden
    /\ items[1].hidden_reason = "auto_report_threshold"
    /\ BagCardinality(reports) = AUTO_HIDE_THRESHOLD
    /\ inflight = EmptyBag

----------------------------------------------------------------------------
(* Properties of the admin scenario: failing commits. *)

\* C23: a moderate_user (warn, temp_ban, unban) or moderate_item (hide,
\* restore, delete) that ends with a server error because its commit
\* failed leaves users, items, reports and notifications as they were.
C23_FailedCommitChangesNothing ==
    [][(/\ resp'.op \in {"moderate_user", "moderate_item"}
        /\ resp'.code = 500)
       => UNCHANGED <<users, items, reports, resolutions, notifications>>]_vars

\* The commit of a warn of the admin's row has failed after the owner was
\* banned and the item restored: no warning is counted, no notification
\* exists, and the ban and the review stand.
C23_Witness ==
    /\ resp.op = "moderate_user" /\ resp.code = 500
    /\ resp.body.action = "warn"
    /\ resp.body.user_id = AdminId
    /\ users[AdminId].warning_count = 0
    /\ users[OwnerId].is_banned
    /\ notifications = EmptyBag
    /\ \E x \in BagToSet(reports) : x.status = "reviewed"

----------------------------------------------------------------------------
(* Properties of the claim and decision scenarios. *)

\* The Resolutions of claimant c on item i with status st.
ResolutionCount(rows, c, i, st) ==
    SumCopies(rows, {x \in BagToSet(rows) :
                        /\ x.claimant_id = c /\ x.found_item_id = i
                        /\ x.status = st})

\* C24: the status of a Resolution only goes from pending to approved or
\* from pending to rejected: in every step, for every claimant and item,
\* no approved and no rejected Resolution ceases to be so, and what the
\* decided ones gain the pending ones lose.
C24_DecidedIsFinal ==
    [][\A c \in DOMAIN users, i \in DOMAIN items :
          LET was(st) == ResolutionCount(resolutions, c, i, st)
              is(st) == ResolutionCount(resolutions', c, i, st)
          IN  /\ is("approved") >= was("approved")
              /\ is("rejected") >= was("rejected")
              /\ is("pending") >= was("pending")
                    - (is("approved") - was("approved"))
                    - (is("rejected") - was("rejected"))
              /\ is("pending") + is("approved") + is("rejected")
                    >= was("pending") + was("approved") + was("rejected")]_vars

\* The owner was refused a decision on a claim that is decided already;
\* the item has an approved claim and a rejected one.
C24_Witness ==
    /\ resp.op = "decide_claim" /\ resp.code = 409
    /\ \E x \in BagToSet(resolutions) : x.status = "approved"
    /\ \E x \in BagToSet(resolutions) : x.status = "rejected"

\* C25: a Resolution is inserted only for a claimant whom get_db_user
\* resolves (authenticated, not banned) and who is not the owner, and only
\* for an item that exists, is found, not hidden, visible to the claimant
\* and has no pending or approved Resolution when the row is inserted.
C25_ClaimPreconditions ==
    [][\A r \in Requests("create_claim") :
          (ClaimInsert(r) /\ resp'.code = 200)
          => /\ r.user_id \in DOMAIN users
             /\ ~users[r.user_id].is_banned
             /\ r.item_id \in DOMAIN items
             /\ items[r.item_id].user_id # r.user_id
             /\ items[r.item_id].type = "found"
             /\ VisibleTo(items[r.item_id], users[r.user_id].hostel)
             /\ ActiveResolutionCount(r.item_id) = 0]_vars

----------------------------------------------------------------------------
(* Properties of the profile scenario. *)

\* C27: once a user's phone is set it never changes, and a set_phone of
\* that user that starts afterwards is rejected, also when two set_phone
\* requests of the user run at the same time.
C27_PhoneSetOnce ==
    [][\A u \in DOMAIN users :
          users[u].phone # None
          => /\ users'[u].phone = users[u].phone
             /\ \A phone \in Phones :
                    PhoneLoad(IssueToken(u), phone)
                    => (resp'.code = 403 /\ inflight' = inflight)]_vars

----------------------------------------------------------------------------
(* Properties of the warn scenario. *)

\* C28: warning_count starts at 0 and is never negative, and no step
\* (warn, failed or concurrent, temp_ban, unban, login, set_hostel) makes
\* a user's warning_count smaller.
C28_WarningCountMonotonic ==
    [][\A u \in DOMAIN users :
          /\ users[u].warning_count >= 0
          /\ users'[u].warning_count >= users[u].warning_count]_vars

\* C29: every successful warn adds one to the user's warning_count and one
\* warning_issued notification in the same commit, so the count equals the
\* number of these notifications after any number of warns, sequential or
\* concurrent.
C29_WarnCountsMatch ==
    \A u \in DOMAIN users : users[u].warning_count = WarningNoticeCount(u)

----------------------------------------------------------------------------
(* Properties of the ban scenario: the length of a ban. *)

\* C30: a successful temp_ban sets is_banned, a ban_reason and ban_until
\* to the time of the action plus N days for every supplied ban_days N,
\* and plus 7 days only when ban_days is not supplied.
C30_BanUntilFollowsBanDays ==
    [][\A d \in BanDayInputs :
          (/\ ModerateUser(IssueToken(AdminId), OwnerId, "temp_ban", d)
           /\ resp'.code = 200)
          => /\ users'[OwnerId].is_banned
             /\ users'[OwnerId].ban_reason # None
             /\ users'[OwnerId].ban_until
                  = now + (IF d = NoDays THEN DEFAULT_BAN_DAYS ELSE d)]_vars

----------------------------------------------------------------------------
(* Properties of the update scenario. *)

\* C31: a successful update_item gives every supplied field its supplied
\* value and leaves every other attribute of the item, and every other
\* item, as it was; a request that supplies no field is rejected and
\* changes nothing.
C31_UpdateChangesSuppliedFields ==
    [][\A u \in {OwnerId, AdminId + 1}, id \in {1, 2},
         updates \in UpdateInputs :
          UpdateItem(u, id, updates)
          => /\ resp'.code = 200
                => /\ DOMAIN updates # {}
                   /\ id \in DOMAIN items /\ id \in DOMAIN items'
                   /\ DOMAIN items' = DOMAIN items
                   /\ \A f \in DOMAIN items[id] :
                          items'[id][f] = IF f \in DOMAIN updates
                                          THEN updates[f]
                                          ELSE items[id][f]
                   /\ \A j \in DOMAIN items \ {id} : items'[j] = items[j]
             /\ DOMAIN updates = {}
                => (resp'.code \in {400, 403, 404} /\ items' = items)]_vars

\* Three patches of item 1 have succeeded: its title, location and
\* visibility are the supplied ones, its description was never supplied
\* and is the one it was created with, and item 2 got the other patch.
C31_Witness ==
    /\ resp.op = "update_item" /\ resp.code = 200
    /\ items[1].title = "new title"
    /\ items[1].location = "new location"
    /\ items[1].visibility = "boys"
    /\ items[1].description = "description"
    /\ items[1].type = "lost" /\ items[1].user_id = OwnerId
    /\ items[2].category = "keys-wallets"
    /\ items[2].title = "title"

----------------------------------------------------------------------------
(* Properties of the claim status scenario. *)

HasResolution(id, st) ==
    \E x \in BagToSet(resolutions) : x.found_item_id = id /\ x.status = st

\* C32: the claim_status of a get_item answer is approved when the item has
\* an approved Resolution, pending when it has a pending one and no
\* approved one, and none when it has neither.
C32_ClaimStatusDerived ==
    [][\A r \in Requests("get_item") :
          (GetItem(r) /\ resp'.code = 200)
          => resp'.body.claim_status =
                IF HasResolution(r.item_id, "approved") THEN "approved"
                ELSE IF HasResolution(r.item_id, "pending") THEN "pending"
                ELSE "none"]_vars

----------------------------------------------------------------------------
(* Properties of the hide scenario. *)

\* C33: in every state and for every item, hidden_reason is absent exactly
\* when is_hidden is false.
C33_HiddenReasonIffHidden ==
    \A i \in DOMAIN items :
        (items[i].hidden_reason = None) <=> ~items[i].is_hidden

----------------------------------------------------------------------------
(* Properties of the session scenario. *)

\* The token google_auth would issue now for the user a token is of.
Persisted(tok) == IssueToken(UserByPublicId(tok.sub))

\* C34: the answers of get_item and get_all_items to a signed-in viewer are
\* the ones the viewer's persisted row (role, hostel) gives, whatever the
\* claims of the token: after set_hostel the next read shows the new scope.
C34_ReadsFollowPersistedUser ==
    [][/\ \A r \in Requests("get_item") :
            (GetItem(r) /\ r.tok # NoToken)
            => resp'.code = GetItemCode(items, Persisted(r.tok), r.item_id)
       /\ \A r \in Requests("get_all_items") :
            (GetAllItems(r) /\ r.tok # NoToken)
            => resp'.body.items = ListFilter(items, Persisted(r.tok))]_vars

\* C35: the token of a successful refresh_token has the subject, the role
\* and the hostel of the token google_auth issues for the same user.
C35_RefreshKeepsClaims ==
    [][(HeldToken # NoToken /\ RefreshToken(HeldToken) /\ resp'.code = 200)
       => resp'.body.token = Persisted(HeldToken)]_vars

----------------------------------------------------------------------------
(* Properties of the unban scenario. *)

\* C36: in every state and for every user, a user who is not banned has
\* neither ban_reason nor ban_until, and a banned user has a ban_until.
C36_BanFieldsConsistent ==
    \A u \in DOMAIN users :
        /\ ~users[u].is_banned
              => users[u].ban_reason = None /\ users[u].ban_until = NoTime
        /\ users[u].is_banned => users[u].ban_until # NoTime

----------------------------------------------------------------------------
(* Properties of restore on reports reviewed before. *)

\* C37: a successful restore changes only the pending reports of its item:
\* a report reviewed by an earlier restore keeps its reviewed_by and
\* reviewed_at, and the reports of other items stay as they are.
C37_RestoreKeepsReviewed ==
    [][Moderated("restore")
       => \A r \in BagToSet(reports) :
             (r.status # "pending" \/ r.item_id # resp'.item_id)
             => CopiesIn(r, reports') >= CopiesIn(r, reports)]_vars

----------------------------------------------------------------------------
(* Properties of reports completing after an admin's hide. *)

\* C38: while an item is hidden by an admin, no step other than an admin's
\* restore or delete changes its hidden_reason or adds a system_notice
\* notification for it, a report_item that read the item before the hide
\* included.
C38_AdminHideStays ==
    [][\A i \in DOMAIN items :
          (/\ items[i].is_hidden
           /\ items[i].hidden_reason = "admin_moderation"
           /\ ~Moderated("restore") /\ ~Moderated("delete"))
          => /\ i \in DOMAIN items'
             /\ items'[i].hidden_reason = "admin_moderation"
             /\ HideNoticeCountIn(notifications', i) = HideNoticeCount(i)]_vars

====
